---- MODULE Spec2Model ----
(***************************************************************************)
(* DataForge: the cost-governed, rate-limited API access layer.           *)
(*                                                                         *)
(*   api/rate_limiter.py   TokenBucketRateLimiter                          *)
(*   api/cost_tracker.py   CostTracker / CostBreakdown                     *)
(*   api/base.py           BaseAPIClient.check_cost_budget                 *)
(*   storage/api_cache.py  APICache                                        *)
(*   api/tavily_client.py  TavilyClient.search                             *)
(*   api/openai_client.py  OpenAIClient.analyze_text                       *)
(*                                                                         *)
(* Units.  Time is in seconds.  Token amounts (tokens, capacity, acquire   *)
(* costs) are kept in 1/60 of a token, so that the code's                  *)
(* elapsed * (rate_per_minute / 60.0) is the integer                       *)
(* elapsed * rate_per_minute.  Money is kept in units of 0.0005 USD (the    *)
(* cheapest price per 1000 tokens), token usage in units of 1000 tokens;   *)
(* float rounding is not modelled.                                         *)
(* Every `await` of the source is a point where another task may run; the  *)
(* code between two awaits is one step.                                    *)
(***************************************************************************)
EXTENDS Integers, Sequences, FiniteSets, TLC

\* ------------------------------------------------------------------ bounds
NTasks == 2
MaxTicks == 1
TickSeconds == 60
MaxCalls == 3
MaxRequests == 3
MaxAttempts == 3
MaxLines == 3
MaxKeyRequests == 2

\* --------------------------------------------------------------- constants
\* rate_per_sec = rate_per_minute / 60.0
TokenScale == 60

Tasks == 1 .. NTasks
NoTask == 0

Min(a, b) == IF a <= b THEN a ELSE b
Max(a, b) == IF a >= b THEN a ELSE b

\* ---------------------------------------------------------------- inputs
\* rate_per_minute / burst arguments given to TokenBucketRateLimiter(...)
RateArgs == {0, 2}
\* (an Optional[int]: <<>> is None, <<n>> is n)
BurstArgs == {<<>>, <<1>>, <<3>>}
\* acquire(tokens=...) arguments, in whole tokens (1.0 is the default)
CostArgs == {-1, 0, 1, 2, 4}
\* add_cost(service, amount_usd) / within_budget(extra_cost_usd) arguments
ServiceArgs == {"tavily", "openai", "serpapi"}
AmountArgs == {-1, 0, 800, 1000}
\* settings.api.cost_limits.daily_budget values (2000 is 1.00 USD)
DailyBudgetArgs == {1800, 2000}

\* what the network answers: usage counts <<prompt, completion>> in units of
\* 1000 tokens, result sets, and the error statuses of a failed call
UsageArgs == {<<10, 10>>, <<20, 10>>}
DocsArgs == {"d1"}
ErrorStatusArgs == {400, 429, 500, 503}

\* the query / text arguments of search and analyze_text.  Texts are
\* interchangeable: the n-th distinct text a caller uses is the n-th of TextSeq.
QueryArgs == {"a"}
TextSeq == <<"a", "b", "c">>
TextArgs == {TextSeq[i] : i \in DOMAIN TextSeq}
TextIndex(x) == CHOOSE i \in DOMAIN TextSeq : TextSeq[i] = x
\* a deployment: how many requests the caller keeps in flight at once, and
\* settings.api.cost_limits.daily_budget / per_request_max (2000 is 1.00 USD).
\* The estimates the price table gives for UsageArgs are 800 and 1000 (primary
\* model), 40 and 50 (fallback model).
Deployments ==
    {[concurrency |-> 1, daily_budget |-> 2000, per_request_max |-> 1000],
     [concurrency |-> 1, daily_budget |-> 1800, per_request_max |-> 800],
     [concurrency |-> 2, daily_budget |-> 1800, per_request_max |-> 1000]}

Limiters == {"tavily", "openai"}

VARIABLES
    now,          \* time.monotonic()
    settings,     \* get_settings(): the configuration this layer consumes
    bucket,       \* the TokenBucketRateLimiter of each client
    pc,           \* position of each task
    req,          \* per task: the call it is executing and what it did so far
    sleep,        \* [start, need]: the asyncio.sleep a task is suspended in
    admitted,     \* per limiter: sum of the costs of the acquires that returned
    ncalls,       \* calls issued so far
    minCost,      \* least cost any acquire call was issued with
    costs,        \* CostTracker._costs (a CostBreakdown)
    log,          \* the completed add_cost calls, <<service, amount>>, in order
    lastCheck,    \* the last within_budget call: argument, ledger seen, answer
    cache,        \* APICache: namespace -> key -> <<>> (no file) or <<payload>>
    concurrency,  \* how many requests the caller keeps in flight at once
    ntexts,       \* how many distinct texts analyze_text was called with
    retry,        \* the with_retries call in progress and what it did so far
    held,         \* the CostBreakdown object a caller got from get_totals
    cacheOp,      \* the last direct call of APICache.get / set / clear
    client,       \* per client kind: not constructed, or the constructed object
    export,       \* the last export_to_csv call: its input and what it left
    lk,           \* the component locks: their owners, and where each request is
    cc,           \* one APICache object under concurrent get / set / clear calls
    waited,       \* how many acquire calls returned after sleeping
    fp,           \* cache fingerprints: the interpreter run, and the keys requests got
    made          \* the last TokenBucketRateLimiter constructed, and its arguments

vars == <<now, settings, bucket, pc, req, sleep, admitted, ncalls, minCost,
          costs, log, lastCheck, cache, concurrency, ntexts,
          retry, held, cacheOp, client, export, lk, cc, waited,
          fp, made>>

\* the state of the operations that involve no client request
unrelated == <<retry, held, cacheOp, client, export, lk, cc, fp, made>>
others == <<unrelated, waited>>

\* ------------------------------------------------- TokenBucketRateLimiter

NewLimiterUnclamped(rate_arg, burst_arg, t) ==
    LET cap == IF burst_arg # <<>> THEN burst_arg[1] ELSE rate_arg
    IN [rate_per_minute |-> rate_arg,
        capacity        |-> cap * TokenScale,
        tokens          |-> cap * TokenScale,
        last_refill     |-> t,
        lock            |-> NoTask]

\* __init__(rate_per_minute, burst) at time t
NewLimiter(rate_arg, burst_arg, t) ==
    LET rpm == Max(1, rate_arg)
        cap == IF burst_arg # <<>> THEN burst_arg[1] ELSE rpm
    IN [rate_per_minute |-> rpm,
        capacity        |-> cap * TokenScale,
        tokens          |-> cap * TokenScale,
        last_refill     |-> t,
        lock            |-> NoTask]

RefillNoStamp(b, t) ==
    [b EXCEPT !.tokens = Min(b.capacity,
                             b.tokens + (t - b.last_refill) * b.rate_per_minute)]

RefillNoCap(b, t) ==
    [b EXCEPT !.tokens = b.tokens + (t - b.last_refill) * b.rate_per_minute,
              !.last_refill = t]

RefillPerMinuteTwice(b, t) ==
    [b EXCEPT !.tokens = Min(b.capacity,
                             b.tokens + ((t - b.last_refill) * b.rate_per_minute)
                                            \div TokenScale),
              !.last_refill = t]

\* _refill() at time t
Refill(b, t) ==
    [b EXCEPT !.tokens = Min(b.capacity,
                             b.tokens + (t - b.last_refill) * b.rate_per_minute),
              !.last_refill = t]

SufficientUnchecked(b, cost) == TRUE

\* `if self.tokens >= tokens` after the refill
Sufficient(b, cost) == b.tokens >= cost

\* `self.tokens -= tokens`
Debit(b, cost) == [b EXCEPT !.tokens = b.tokens - cost]

\* asyncio.sleep(needed / rate_per_sec) has elapsed at time t
SleepOver(s, b, t) == (t - s.start) * b.rate_per_minute >= s.need

NoSleep == [start |-> 0, need |-> 0]

\* a task that is not executing any call
NoReq ==
    [kind |-> "none", cost |-> 0, text |-> "", model |-> "", usage |-> <<0, 0>>,
     docs |-> "", est |-> 0, neterr |-> "", status |-> 0, netcalls |-> 0, effects |-> {},
     outcome |-> "none", stage |-> "", result |-> <<>>, gate_total |-> 0]

\* the limiter a call goes through: self._rate of the client, or the limiter
\* a direct caller of acquire was handed
LimiterOf(kind) == IF kind = "analyze" THEN "openai" ELSE "tavily"

\* where a task continues when acquire returns
AfterAcquire(kind) == IF kind = "acquire" THEN "idle" ELSE "cache_get"

\* One pass of the `while True` body of acquire, run by task t holding the
\* lock: refill, then debit and return, or sleep for the shortfall.
AcquirePass(t) ==
    LET l == LimiterOf(req[t].kind)
        b == Refill(bucket[l], now)
    IN IF Sufficient(b, req[t].cost)
       THEN /\ bucket' = [bucket EXCEPT ![l] =
                            [Debit(b, req[t].cost) EXCEPT !.lock = NoTask]]
            /\ admitted' = [admitted EXCEPT ![l] = @ + req[t].cost]
            /\ pc' = [pc EXCEPT ![t] = AfterAcquire(req[t].kind)]
            /\ req' = [req EXCEPT ![t] =
                          IF @.kind = "acquire" THEN NoReq
                          ELSE [@ EXCEPT !.effects = @ \cup {"debit"}]]
            /\ sleep' = [sleep EXCEPT ![t] = NoSleep]
       ELSE /\ bucket' = [bucket EXCEPT ![l] = [b EXCEPT !.lock = t]]
            /\ admitted' = admitted
            /\ pc' = [pc EXCEPT ![t] = "sleeping"]
            /\ req' = req
            /\ sleep' = [sleep EXCEPT ![t] =
                            [start |-> now, need |-> req[t].cost - b.tokens]]

\* A caller invokes limiter.acquire(tokens=c)
CallAcquire(t, c) ==
    /\ pc[t] = "idle"
    /\ ncalls < MaxCalls
    /\ ncalls' = ncalls + 1
    /\ pc' = [pc EXCEPT ![t] = "acquire"]
    /\ req' = [req EXCEPT ![t] =
                  [NoReq EXCEPT !.kind = "acquire", !.cost = c * TokenScale]]
    /\ minCost' = Min(minCost, c)
    /\ UNCHANGED <<now, bucket, sleep, admitted>>
    /\ UNCHANGED <<settings, costs, log, lastCheck, cache, concurrency, ntexts, others>>

\* `async with self._lock:` succeeds and the first pass of the loop runs
AcquireEnter(t) ==
    /\ pc[t] = "acquire"
    /\ bucket[LimiterOf(req[t].kind)].lock = NoTask
    /\ AcquirePass(t)
    /\ UNCHANGED <<now, ncalls, minCost>>
    /\ UNCHANGED <<settings, costs, log, lastCheck, cache, concurrency, ntexts, others>>

\* the sleep ends; the loop runs again
AcquireWake(t) ==
    /\ pc[t] = "sleeping"
    /\ bucket[LimiterOf(req[t].kind)].lock = t
    /\ SleepOver(sleep[t], bucket[LimiterOf(req[t].kind)], now)
    /\ AcquirePass(t)
    /\ waited' = IF pc'[t] = "sleeping" THEN waited ELSE waited + 1
    /\ UNCHANGED <<now, ncalls, minCost>>
    /\ UNCHANGED <<settings, costs, log, lastCheck, cache, concurrency, ntexts, unrelated>>

\* time passes
Tick ==
    /\ now + TickSeconds <= MaxTicks * TickSeconds
    /\ now' = now + TickSeconds
    /\ UNCHANGED <<bucket, pc, req, sleep, admitted, ncalls, minCost>>
    /\ UNCHANGED <<settings, costs, log, lastCheck, cache, concurrency, ntexts, others>>

\* Time without an end.  time.monotonic() has no fixed origin and the code
\* reads only differences of instants, and an elapsed time beyond the point
\* where _refill fills the bucket, or where a sleep is over, acts like that
\* point.  So after TickSeconds have passed the instants kept in the state are
\* moved: last_refill and the start of each sleep no further back than that
\* point, and the origin to the earliest instant that is left.
CeilDiv(a, b) == (a + b - 1) \div b

\* seconds after which _refill fills bucket b whatever it holds
RefillHorizon(b) == CeilDiv(b.capacity, b.rate_per_minute)

\* seconds after which the sleep s on bucket b is over
SleepHorizon(s, b) == CeilDiv(Max(s.need, 0), b.rate_per_minute)

SetMin(S) == CHOOSE x \in S : \A y \in S : x <= y

Elapse ==
    LET t1 == now + TickSeconds
        refilled(l) == Max(bucket[l].last_refill, t1 - RefillHorizon(bucket[l]))
        started(t) ==
            Max(sleep[t].start,
                t1 - SleepHorizon(sleep[t], bucket[LimiterOf(req[t].kind)]))
        sleepers == {t \in Tasks : pc[t] = "sleeping"}
        origin == SetMin({t1} \cup {refilled(l) : l \in Limiters}
                              \cup {started(t) : t \in sleepers})
    IN /\ now' = t1 - origin
       /\ bucket' = [l \in Limiters |->
                        [bucket[l] EXCEPT !.last_refill = refilled(l) - origin]]
       /\ sleep' = [t \in Tasks |->
                       IF t \in sleepers
                       THEN [sleep[t] EXCEPT !.start = started(t) - origin]
                       ELSE sleep[t]]
       /\ UNCHANGED <<pc, req, admitted, ncalls, minCost>>
       /\ UNCHANGED <<settings, costs, log, lastCheck, cache, concurrency, ntexts, others>>

\* the arguments some code constructs a limiter with, and the limiter it got
ConstructRateArgs == -1 .. 4
ConstructBurstArgs == {<<>>} \cup {<<n>> : n \in 0 .. 4}
NoLimiter == [rate_arg |-> 0, burst_arg |-> <<>>, limiter |-> <<>>]

\* TokenBucketRateLimiter(rate_per_minute, burst) at the present time
ConstructLimiter(rate_arg, burst_arg) ==
    /\ made' = [rate_arg |-> rate_arg, burst_arg |-> burst_arg,
                limiter |-> <<NewLimiter(rate_arg, burst_arg, now)>>]
    /\ UNCHANGED <<now, settings, bucket, pc, req, sleep, admitted, ncalls, minCost,
                   costs, log, lastCheck, cache, concurrency, ntexts,
                   retry, held, cacheOp, client, export, lk, cc, waited,
                   fp>>

\* ------------------------------------------------------------- CostTracker
\* Money is in units of 0.0005 USD.

\* CostBreakdown.total
Total(c) == c.tavily_usd + c.openai_usd

AddCostAnyService(c, service, amount_usd) ==
    IF service = "tavily"
    THEN [c EXCEPT !.tavily_usd = @ + amount_usd]
    ELSE [c EXCEPT !.openai_usd = @ + amount_usd]

\* add_cost(service, amount_usd): the ledger afterwards
AddCost(c, service, amount_usd) ==
    IF service = "tavily"
    THEN [c EXCEPT !.tavily_usd = @ + amount_usd]
    ELSE IF service = "openai"
         THEN [c EXCEPT !.openai_usd = @ + amount_usd]
         ELSE c

\* get_totals(): a new CostBreakdown holding the two totals
GetTotals(c) == [tavily_usd |-> c.tavily_usd, openai_usd |-> c.openai_usd]

WithinBudgetIgnoresExtra(c, extra_cost_usd, daily_budget) ==
    Total(GetTotals(c)) <= daily_budget

WithinBudgetNoLimit(c, extra_cost_usd, daily_budget) == TRUE

WithinBudgetStrict(c, extra_cost_usd, daily_budget) ==
    Total(GetTotals(c)) + extra_cost_usd < daily_budget

WithinBudgetOpenaiOnly(c, extra_cost_usd, daily_budget) ==
    c.openai_usd + extra_cost_usd <= daily_budget

\* within_budget(extra_cost_usd)
WithinBudget(c, extra_cost_usd, daily_budget) ==
    Total(GetTotals(c)) + extra_cost_usd <= daily_budget

NoCheck == [called |-> FALSE, extra |-> 0, ret |-> FALSE,
            seen |-> [tavily_usd |-> 0, openai_usd |-> 0]]

\* some task calls tracker.add_cost(service, amount) directly
LedgerAddCost(service, amount) ==
    /\ ncalls < MaxCalls
    /\ ncalls' = ncalls + 1
    /\ costs' = AddCost(costs, service, amount)
    /\ log' = Append(log, <<service, amount>>)
    /\ UNCHANGED <<now, settings, bucket, pc, req, sleep, admitted, minCost,
                   lastCheck, cache, concurrency, ntexts, others>>

\* some task calls tracker.within_budget(extra) directly
LedgerWithinBudget(extra) ==
    /\ lastCheck' = [called |-> TRUE, extra |-> extra, seen |-> costs,
                     ret |-> WithinBudget(costs, extra, settings.daily_budget)]
    /\ UNCHANGED <<now, settings, bucket, pc, req, sleep, admitted, ncalls,
                   minCost, costs, log, cache, concurrency, ntexts, others>>

\* The CostBreakdown objects.  self._costs lives in the ledger; `held` is the
\* reference a caller of get_totals was handed: loc names the object it
\* points to ("fresh": an object of its own, "ledger": self._costs), value is
\* the content of a fresh object, at_return the content seen on return.
NoHeld ==
    [loc |-> "none", value |-> [tavily_usd |-> 0, openai_usd |-> 0],
     at_return |-> [tavily_usd |-> 0, openai_usd |-> 0], writes |-> 0]

GetTotalsObjectShared == "ledger"

\* the object get_totals returns: `return CostBreakdown(...)`, a new object
GetTotalsObject == "fresh"

\* what reading the fields of the held object gives
ObjectValue(h, c) == IF h.loc = "ledger" THEN c ELSE h.value

\* the fields of a CostBreakdown a holder may assign to
FieldArgs == {"tavily_usd", "openai_usd"}

\* some task calls tracker.get_totals() and keeps the result
LedgerGetTotals ==
    /\ ncalls < MaxCalls
    /\ ncalls' = ncalls + 1
    /\ held' = [loc |-> GetTotalsObject, value |-> GetTotals(costs),
                at_return |-> GetTotals(costs), writes |-> 0]
    /\ UNCHANGED <<now, settings, bucket, pc, req, sleep, admitted, minCost,
                   costs, log, lastCheck, cache, concurrency, ntexts,
                   retry, cacheOp, client, export, lk, cc, waited,
                   fp, made>>

\* the holder assigns to a field of the object it was handed:
\* `totals.<field> += amount`
HolderWrites(field, amount) ==
    /\ held.loc # "none"
    /\ ncalls < MaxCalls
    /\ ncalls' = ncalls + 1
    /\ IF held.loc = "ledger"
       THEN /\ costs' = [costs EXCEPT ![field] = @ + amount]
            /\ held' = [held EXCEPT !.writes = @ + 1]
       ELSE /\ costs' = costs
            /\ held' = [held EXCEPT !.value[field] = @ + amount,
                                    !.writes = @ + 1]
    /\ UNCHANGED <<now, settings, bucket, pc, req, sleep, admitted, minCost,
                   log, lastCheck, cache, concurrency, ntexts,
                   retry, cacheOp, client, export, lk, cc, waited,
                   fp, made>>

\* ---------------------------------------------------------------- APICache

\* The cache directory is modelled as namespace -> key -> file, a file being
\* <<>> (no file), <<v>> (the JSON text of v) or <<Garbage>> (text that does
\* not parse, such as the empty file a failed write leaves).  _key_to_path
\* gives every key of a namespace a file of its own in the directory
\* <base_dir>/<namespace>.
Garbage == [garbage |-> TRUE]

\* the namespaces a caller may name; "tavily/raw" is a directory inside
\* "tavily"
NamespaceArgs == {"tavily", "openai_analyze", "tavily/raw"}
\* a str that holds a lone surrogate: str.encode("utf-8") raises on it
LoneSurrogate == "<U+D800>"
KeyArgs == {"a", "b", LoneSurrogate}
\* clear(namespace=...): an Optional[str]
ClearArgs == {<<>>} \cup {<<ns>> : ns \in NamespaceArgs}
\* JSON payloads; json.dumps(..., ensure_ascii=False) leaves the lone
\* surrogate of the last one as it is and the utf-8 encoder of write_text
\* rejects it
PayloadArgs == {[documents |-> "d1"], [documents |-> "d2"],
                [documents |-> LoneSurrogate]}
Encodable(value) == value # [documents |-> LoneSurrogate]

\* _key_to_path: key.encode("utf-8") raises, or the key gets its own file
PathError(key) == IF key = LoneSurrogate THEN "UnicodeEncodeError" ELSE ""
\* what the file system does in set: all goes well, mkdir raises, or the
\* file cannot be opened for writing
IOArgs == {"ok", "mkdir_error", "open_error"}

\* self._dir / namespace, as path components below base_dir
Dir(namespace) ==
    IF namespace = "tavily/raw" THEN <<"tavily", "raw">> ELSE <<namespace>>

\* the directory of `namespace` is `base` or lies inside it: its files are
\* among base.rglob("*.json")
Under(namespace, base) ==
    /\ Len(Dir(base)) <= Len(Dir(namespace))
    /\ SubSeq(Dir(namespace), 1, Len(Dir(base))) = Dir(base)

CacheGetNoParseGuard(c, namespace, key) == c[namespace][key]

\* get(namespace, key): <<>> (None) when there is no file or it does not parse
CacheGet(c, namespace, key) ==
    IF c[namespace][key] = <<Garbage>> THEN <<>> ELSE c[namespace][key]

\* set(namespace, key, value) under the file system outcome io: the files
\* afterwards, and the exception that leaves set ("" when it returns)
CacheSetIO(c, namespace, key, value, io) ==
    IF io = "mkdir_error"
    THEN [cache |-> c, raised |-> "OSError"]
    ELSE IF io = "open_error"
         THEN [cache |-> c, raised |-> ""]
         ELSE IF Encodable(value)
              THEN [cache |-> [c EXCEPT ![namespace][key] = <<value>>],
                    raised |-> ""]
              ELSE [cache |-> [c EXCEPT ![namespace][key] = <<Garbage>>],
                    raised |-> ""]

CacheSetIfAbsent(c, namespace, key, value) ==
    IF c[namespace][key] # <<>> THEN c
    ELSE CacheSetIO(c, namespace, key, value, "ok").cache

\* set(namespace, key, value) when the file system works
CacheSet(c, namespace, key, value) ==
    CacheSetIO(c, namespace, key, value, "ok").cache

\* clear(namespace): every *.json file below the base directory is unlinked
CacheClear(c, namespace_arg) ==
    [ns \in DOMAIN c |->
        IF namespace_arg = <<>> \/ Under(ns, namespace_arg[1])
        THEN [k \in DOMAIN c[ns] |-> <<>>]
        ELSE c[ns]]

\* The last direct call of the cache, and what the calls so far did to each
\* entry: "unset" (never set, or removed by a clear since), "set" (the last
\* set wrote the text of `value`), "unwritten" (the last set did not get its
\* text into the file), "damaged" (the file was overwritten since with text
\* that does not parse).
Unset == [state |-> "unset", value |-> <<>>]

NoCacheOp ==
    [op |-> "none", namespace |-> <<>>, key |-> "", value |-> <<>>,
     raised |-> "", ret |-> <<>>,
     entries |-> [ns \in NamespaceArgs |-> [k \in KeyArgs |-> Unset]]]

\* a caller awaits cache.get(ns, key)
CallCacheGet(ns, key) ==
    /\ ncalls < MaxCalls
    /\ ncalls' = ncalls + 1
    /\ cacheOp' = [cacheOp EXCEPT !.op = "get", !.namespace = <<ns>>, !.key = key,
                                  !.value = <<>>, !.raised = PathError(key),
                                  !.ret = IF PathError(key) # "" THEN <<>>
                                          ELSE CacheGet(cache, ns, key)]
    /\ UNCHANGED <<now, settings, bucket, pc, req, sleep, admitted, minCost,
                   costs, log, lastCheck, cache, concurrency, ntexts,
                   retry, held, client, export, lk, cc, waited,
                   fp, made>>

\* a caller awaits cache.set(ns, key, value)
CallCacheSet(ns, key, value, io) ==
    /\ ncalls < MaxCalls
    /\ ncalls' = ncalls + 1
    /\ LET res == IF PathError(key) # ""
                  THEN [cache |-> cache, raised |-> PathError(key)]
                  ELSE CacheSetIO(cache, ns, key, value, io)
       IN /\ cache' = res.cache
          /\ cacheOp' = [cacheOp EXCEPT
                !.op = "set", !.namespace = <<ns>>, !.key = key,
                !.value = <<value>>, !.raised = res.raised, !.ret = <<>>,
                !.entries[ns][key] =
                    [state |-> IF io = "ok" /\ Encodable(value) /\ PathError(key) = ""
                               THEN "set" ELSE "unwritten",
                     value |-> <<value>>]]
    /\ UNCHANGED <<now, settings, bucket, pc, req, sleep, admitted, minCost,
                   costs, log, lastCheck, concurrency, ntexts,
                   retry, held, client, export, lk, cc, waited,
                   fp, made>>

\* a caller awaits cache.clear(namespace)
CallCacheClear(namespace_arg) ==
    /\ ncalls < MaxCalls
    /\ ncalls' = ncalls + 1
    /\ cache' = CacheClear(cache, namespace_arg)
    /\ cacheOp' = [cacheOp EXCEPT
          !.op = "clear", !.namespace = namespace_arg, !.key = "",
          !.value = <<>>, !.raised = "", !.ret = <<>>,
          !.entries = [ns \in NamespaceArgs |->
                          IF namespace_arg = <<>> \/ Under(ns, namespace_arg[1])
                          THEN [k \in KeyArgs |-> Unset]
                          ELSE cacheOp.entries[ns]]]
    /\ UNCHANGED <<now, settings, bucket, pc, req, sleep, admitted, minCost,
                   costs, log, lastCheck, concurrency, ntexts,
                   retry, held, client, export, lk, cc, waited,
                   fp, made>>

\* something outside the program overwrites a cache file with text that is
\* not JSON
DamageFile(ns, key) ==
    /\ ncalls < MaxCalls
    /\ ncalls' = ncalls + 1
    /\ cache[ns][key] # <<>>
    /\ cache' = [cache EXCEPT ![ns][key] = <<Garbage>>]
    /\ cacheOp' = [cacheOp EXCEPT !.op = "damage", !.namespace = <<ns>>,
                                  !.key = key, !.value = <<>>, !.raised = "",
                                  !.ret = <<>>,
                                  !.entries[ns][key] =
                                      [state |-> "damaged", value |-> <<>>]]
    /\ UNCHANGED <<now, settings, bucket, pc, req, sleep, admitted, minCost,
                   costs, log, lastCheck, concurrency, ntexts,
                   retry, held, client, export, lk, cc, waited,
                   fp, made>>

\* ------------------------------------------------------------- API clients

\* namespace and service name each client uses
NamespaceOf(kind) == IF kind = "analyze" THEN "openai_analyze" ELSE "tavily"
ServiceOf(kind) == IF kind = "analyze" THEN "openai" ELSE "tavily"
ApiErrorOf(kind) == IF kind = "analyze" THEN "OpenAIAPIError" ELSE "TavilyAPIError"

\* _estimate_cost_usd: the price table, per 1000 tokens, in units of 0.0005 USD
Pricing(model) ==
    IF model = "gpt-4-turbo-preview" THEN <<20, 60>> ELSE <<1, 3>>

EstimateCostUsdTopRow(model, usage) == usage[1] * 20 + usage[2] * 60

EstimateCostUsd(model, usage) ==
    usage[1] * Pricing(model)[1] + usage[2] * Pricing(model)[2]

ExceedsPerRequestOrEqual(estimated_cost_usd, per_req_max) ==
    estimated_cost_usd >= per_req_max

\* check_cost_budget raises
ExceedsPerRequest(estimated_cost_usd, per_req_max) ==
    estimated_cost_usd > per_req_max

FallbackStatusAnyError(status) == status \in {400, 429, 500, 503}

\* `exc.response.status_code in (429, 500, 503)`
FallbackStatus(status) == status \in {429, 500, 503}

\* the two clients, named by the request they serve
ClientKinds == {"search", "analyze"}

\* the api_key argument of the constructors and the configured key, both
\* Optional[str]: <<>> is None
ApiKeyArgs == {<<>>, <<"">>, <<" ">>, <<"sk-arg">>}
ConfiguredKeyArgs == {<<>>, <<"">>, <<"sk-cfg">>}

\* `not key` for an Optional[str]
Falsy(key) == key = <<>> \/ key = <<"">>

\* `api_key or settings.api.<provider>.api_key`
EffectiveKey(api_key_arg, configured) ==
    IF Falsy(api_key_arg) THEN configured ELSE api_key_arg

\* `not self._api_key or not self._api_key.strip()`
Blank(key) == Falsy(key) \/ key = <<" ">>

\* `given` is the api_key argument the constructor was called with
NoClient ==
    [state |-> "none", api_key |-> <<>>, created |-> {}, error |-> "",
     given |-> <<>>]

\* what a constructor creates after super().__init__(key) has returned
Collaborators == {"http_client", "rate_limiter", "cache"}

NewClientKeyNotNone(api_key_arg, configured) ==
    LET key == EffectiveKey(api_key_arg, configured)
    IN IF key = <<>>
       THEN [state |-> "failed", api_key |-> <<>>, created |-> {},
             error |-> "InvalidAPIKeyError", given |-> api_key_arg]
       ELSE [state |-> "ready", api_key |-> key, created |-> Collaborators,
             error |-> "", given |-> api_key_arg]

\* TavilyClient(api_key) / OpenAIClient(api_key): BaseAPIClient.__init__ raises
\* for a key that is None or empty before anything else is created
NewClient(api_key_arg, configured) ==
    LET key == EffectiveKey(api_key_arg, configured)
    IN IF Falsy(key)
       THEN [state |-> "failed", api_key |-> <<>>, created |-> {},
             error |-> "InvalidAPIKeyError", given |-> api_key_arg]
       ELSE [state |-> "ready", api_key |-> key, created |-> Collaborators,
             error |-> "", given |-> api_key_arg]

\* the configured key of a client
ConfiguredKey(kind) ==
    IF kind = "analyze" THEN settings.openai_api_key ELSE settings.tavily_api_key

\* some code constructs a client
ConstructClient(kind, api_key_arg) ==
    /\ client[kind].state = "none"
    /\ ncalls < MaxRequests
    /\ ncalls' = ncalls + 1
    /\ client' = [client EXCEPT ![kind] = NewClient(api_key_arg, ConfiguredKey(kind))]
    /\ UNCHANGED <<now, settings, bucket, pc, req, sleep, admitted, minCost,
                   costs, log, lastCheck, cache, concurrency, ntexts,
                   retry, held, cacheOp, export, lk, cc, waited,
                   fp, made>>

InFlight(t) == pc[t] # "idle"

\* the request r ends: it returns or raises
Finish(r, outcome, stage) ==
    [pc |-> "done", req |-> [r EXCEPT !.outcome = outcome, !.stage = stage]]

\* task t moves on
Step(t, next) ==
    /\ pc' = [pc EXCEPT ![t] = next.pc]
    /\ req' = [req EXCEPT ![t] = next.req]

\* the result or the exception reaches the caller
Return(t) ==
    /\ pc[t] = "done"
    /\ pc' = [pc EXCEPT ![t] = "idle"]
    /\ req' = [req EXCEPT ![t] = NoReq]
    /\ UNCHANGED <<now, settings, bucket, sleep, admitted, ncalls, minCost,
                   costs, log, lastCheck, cache, concurrency, ntexts, others>>

\* a caller invokes client.search(text) or client.analyze_text(text) on a
\* client that was constructed; the first await is self._rate.acquire().  Tasks are interchangeable: the
\* lowest free one takes the call.
Start(t, kind, text) ==
    /\ pc[t] = "idle"
    /\ client[kind].state = "ready"
    /\ \A u \in Tasks : u < t => InFlight(u)
    /\ ncalls < MaxRequests
    /\ kind = "analyze" => TextIndex(text) <= ntexts + 1
    /\ ntexts' = IF kind = "analyze" THEN Max(ntexts, TextIndex(text)) ELSE ntexts
    /\ Cardinality({u \in Tasks : InFlight(u)}) < concurrency
    /\ ncalls' = ncalls + 1
    /\ pc' = [pc EXCEPT ![t] = "acquire"]
    /\ req' = [req EXCEPT ![t] =
                  [NoReq EXCEPT !.kind = kind, !.text = text,
                                !.cost = TokenScale,
                                !.model = IF kind = "analyze"
                                          THEN settings.model ELSE ""]]
    /\ UNCHANGED <<now, settings, bucket, sleep, admitted, minCost,
                   costs, log, lastCheck, cache, concurrency, others>>

\* `cached = await self._cache.get(...)`; a hit returns the cached result;
\* on a miss search validates its key before it builds the request
CacheLookup(t) ==
    /\ pc[t] = "cache_get"
    /\ LET cached == CacheGet(cache, NamespaceOf(req[t].kind), req[t].text)
       IN IF cached # <<>>
          THEN Step(t, Finish([req[t] EXCEPT !.result = cached], "cached", "cache"))
          ELSE IF req[t].kind = "search" /\ Blank(client["search"].api_key)
               THEN Step(t, Finish(req[t], "TavilyAPIError", "key_check"))
               ELSE Step(t, [pc |-> "post", req |-> req[t]])
    /\ UNCHANGED <<now, settings, bucket, sleep, admitted, ncalls, minCost,
                   costs, log, lastCheck, cache, concurrency, ntexts, others>>

DispatchErrorSwallowed(r, neterr, status) ==
    [pc |-> "add_cost", req |-> [r EXCEPT !.neterr = neterr, !.status = status]]

\* the `except` clauses around the first post
DispatchError(r, neterr, status) ==
    IF r.kind = "analyze" /\ neterr = "HTTPStatusError" /\ FallbackStatus(status)
    THEN [pc |-> "fallback_post",
          req |-> [r EXCEPT !.neterr = neterr, !.status = status,
                            !.model = settings.fallback_model]]
    ELSE Finish([r EXCEPT !.neterr = neterr, !.status = status],
                ApiErrorOf(r.kind), "dispatch")

\* the fallback post is outside any try: its errors leave analyze_text as
\* they are
FallbackError(r, neterr, status) ==
    Finish([r EXCEPT !.neterr = neterr, !.status = status],
           "httpx." \o neterr, "fallback")

\* analyze_text, from the response to the next await: the estimate and
\* check_cost_budget
AnalyzeResponse(r, usage, total) ==
    LET est == EstimateCostUsd(r.model, usage)
        r2 == [r EXCEPT !.neterr = "", !.status = 200, !.usage = usage,
                        !.est = est, !.gate_total = total,
                        !.effects = @ \cup {"estimate"}]
    IN IF ExceedsPerRequest(est, settings.per_request_max)
       THEN Finish(r2, "CostLimitExceededError", "per_request_gate")
       ELSE [pc |-> "within_budget", req |-> r2]

\* search, from the response to the next await: the documents are built and
\* cache.set comes next; cost_estimate = 0.0
SearchResponse(r, docs, total) ==
    [pc |-> "cache_set",
     req |-> [r EXCEPT !.neterr = "", !.status = 200, !.docs = docs,
                       !.est = 0, !.gate_total = total]]

\* `resp = await self._client.post(...)` and what follows up to the next await
Post(t) ==
    /\ pc[t] = "post"
    /\ LET r == [req[t] EXCEPT !.netcalls = @ + 1]
       IN \E next \in
               {DispatchError(r, "RequestError", 0)}
               \cup {DispatchError(r, "HTTPStatusError", s) : s \in ErrorStatusArgs}
               \cup (IF r.kind = "analyze"
                     THEN {AnalyzeResponse(r, u, Total(costs)) : u \in UsageArgs}
                     ELSE {SearchResponse(r, d, Total(costs)) : d \in DocsArgs}) :
             Step(t, next)
    /\ UNCHANGED <<now, settings, bucket, sleep, admitted, ncalls, minCost,
                   costs, log, lastCheck, cache, concurrency, ntexts, others>>

\* the second post, with the fallback model
FallbackPost(t) ==
    /\ pc[t] = "fallback_post"
    /\ LET r == [req[t] EXCEPT !.netcalls = @ + 1]
       IN \E next \in
               {FallbackError(r, "RequestError", 0)}
               \cup {FallbackError(r, "HTTPStatusError", s) : s \in ErrorStatusArgs}
               \cup {AnalyzeResponse(r, u, Total(costs)) : u \in UsageArgs} :
             Step(t, next)
    /\ UNCHANGED <<now, settings, bucket, sleep, admitted, ncalls, minCost,
                   costs, log, lastCheck, cache, concurrency, ntexts, others>>

\* the order of the awaits after a successful response:
\*   analyze_text: within_budget, add_cost, cache.set
\*   search:       cache.set, within_budget, add_cost
AfterAddCostReturns(kind) == "done"

AfterAddCost(kind) == IF kind = "analyze" THEN "cache_set" ELSE "done"
AfterCacheSet(kind) == IF kind = "analyze" THEN "done" ELSE "within_budget"

\* the value a successful request returns and caches
Payload(r) ==
    IF r.kind = "analyze"
    THEN [model |-> r.model, usage |-> r.usage, total_cost_usd |-> r.est]
    ELSE [documents |-> r.docs]

\* the request continues at `nextpc`, or returns its result
Continue(r, nextpc) ==
    IF nextpc = "done"
    THEN Finish([r EXCEPT !.result = <<Payload(r)>>], "success", "commit")
    ELSE [pc |-> nextpc, req |-> r]

\* `if not await tracker.within_budget(cost): raise CostLimitExceededError`
CheckDailyBudget(t) ==
    /\ pc[t] = "within_budget"
    /\ LET r == [req[t] EXCEPT !.effects = @ \cup {"within_budget"}]
       IN IF WithinBudget(costs, r.est, settings.daily_budget)
          THEN Step(t, [pc |-> "add_cost", req |-> r])
          ELSE Step(t, Finish(r, "CostLimitExceededError", "daily_gate"))
    /\ UNCHANGED <<now, settings, bucket, sleep, admitted, ncalls, minCost,
                   costs, log, lastCheck, cache, concurrency, ntexts, others>>

\* `await tracker.add_cost(service, cost)`
CommitCost(t) ==
    /\ pc[t] = "add_cost"
    /\ costs' = AddCost(costs, ServiceOf(req[t].kind), req[t].est)
    /\ log' = Append(log, <<ServiceOf(req[t].kind), req[t].est>>)
    /\ Step(t, Continue([req[t] EXCEPT !.effects = @ \cup {"add_cost"}],
                        AfterAddCost(req[t].kind)))
    /\ UNCHANGED <<now, settings, bucket, sleep, admitted, ncalls, minCost,
                   lastCheck, cache, concurrency, ntexts, others>>

\* `await self._cache.set(namespace, cache_key, ...)`
CacheStore(t) ==
    /\ pc[t] = "cache_set"
    /\ cache' = CacheSet(cache, NamespaceOf(req[t].kind), req[t].text,
                         Payload(req[t]))
    /\ Step(t, Continue([req[t] EXCEPT !.effects = @ \cup {"cache_set"}],
                        AfterCacheSet(req[t].kind)))
    /\ UNCHANGED <<now, settings, bucket, sleep, admitted, ncalls, minCost,
                   costs, log, lastCheck, concurrency, ntexts, others>>

\* ------------------------------------------------------------- with_retries
\* api/retry_handler.py with_retries and utils.py async_retry have the same
\* body:
\*     for attempt in AsyncRetrying(reraise=True, stop=stop_after_attempt(attempts),
\*                                  wait=..., retry=retry_if_exception_type(retry_on)):
\*         with attempt:
\*             return await func(*args, **kwargs)
\* The loop is a plain `for`, not `async for`.  What it does depends on the
\* tenacity release that is installed: releases whose AsyncRetrying supports
\* `async for` define AsyncRetrying.__iter__ as
\* `raise TypeError("AsyncRetrying object is not iterable")`; earlier releases
\* inherit BaseRetrying.__iter__, which runs the attempts and calls
\* self.sleep(do) without awaiting the coroutine it returns.
TenacityBuilds == {"async_for", "inherited_iter"}

\* the operation handed to with_retries: what its successive calls do, "ok"
\* (returns) or the kind of the error raised
ErrorKinds == {"TimeoutError", "ValueError"}
CallOutcomes == ErrorKinds \cup {"ok"}
OperationArgs == [1 .. MaxAttempts -> CallOutcomes]
\* retry_on: the default (Exception,) covers every kind
RetryOnArgs == {ErrorKinds, {"TimeoutError"}}
AttemptsArgs == 1 .. MaxAttempts
\* <<min_wait, max_wait>> in tenths of a second; <<2, 20>> is the default
WaitArgs == {<<2, 20>>, <<15, 20>>, <<30, 20>>}

NoRetry(build) ==
    [pc |-> "idle", tenacity |-> build, attempts |-> 0, retry_on |-> {},
     operation |-> <<>>, calls |-> 0, backoffs |-> 0,
     min_wait |-> 0, max_wait |-> 0, waits |-> <<>>, slept |-> <<>>,
     outcome |-> "none", error |-> ""]

\* `iter(AsyncRetrying(...))`: the iteration starts, or TypeError is raised
IterRetrying(r) ==
    IF r.tenacity = "async_for"
    THEN [r EXCEPT !.pc = "done", !.outcome = "raise", !.error = "TypeError"]
    ELSE [r EXCEPT !.pc = "attempt"]

\* retry_if_exception_type(retry_on)
RetryPredicate(r, kind) == kind \in r.retry_on

\* stop_after_attempt(attempts)
StopPredicate(r, attempt_number) == attempt_number >= r.attempts

\* wait_exponential(multiplier, max): the wait tenacity asks for after attempt
\* number attempt_number, max(0, min(multiplier * 2 ** (attempt_number - 1), max))
WaitExponential(multiplier, max_wait, attempt_number) ==
    Max(0, Min(multiplier * 2 ^ (attempt_number - 1), max_wait))

\* BaseRetrying.__iter__ calls self.sleep(do) as a plain function;
\* self.sleep is asyncio.sleep, so a coroutine is made and dropped and no
\* time passes before the next attempt
IterSleep(do) == 0

\* one pass of the loop body, `with attempt: return await func(...)`, and the
\* decision BaseRetrying.iter takes when the attempt raised
RunAttempt(r) ==
    LET n == r.calls + 1
        what == r.operation[n]
        r1 == [r EXCEPT !.calls = n]
    IN IF what = "ok"
       THEN [r1 EXCEPT !.pc = "done", !.outcome = "return"]
       ELSE IF ~ RetryPredicate(r1, what)
            THEN [r1 EXCEPT !.pc = "done", !.outcome = "raise", !.error = what]
            ELSE IF StopPredicate(r1, n)
                 THEN [r1 EXCEPT !.pc = "done", !.outcome = "raise", !.error = what]
                 ELSE [r1 EXCEPT
                          !.backoffs = @ + 1,
                          !.waits = Append(@, WaitExponential(r.min_wait,
                                                              r.max_wait, n)),
                          !.slept = Append(@, IterSleep(
                                       WaitExponential(r.min_wait, r.max_wait, n)))]

\* a caller invokes with_retries(operation, attempts=n, min_wait=wait[1],
\* max_wait=wait[2], retry_on=kinds)
CallWithRetries(operation, n, kinds, wait) ==
    /\ retry.pc = "idle"
    /\ ncalls < MaxCalls
    /\ ncalls' = ncalls + 1
    /\ retry' = [NoRetry(retry.tenacity) EXCEPT
                    !.pc = "iter", !.attempts = n, !.retry_on = kinds,
                    !.operation = operation,
                    !.min_wait = wait[1], !.max_wait = wait[2]]
    /\ UNCHANGED <<now, settings, bucket, pc, req, sleep, admitted, minCost,
                   costs, log, lastCheck, cache, concurrency, ntexts,
                   held, cacheOp, client, export, lk, cc, waited,
                   fp, made>>

\* the `for` statement asks AsyncRetrying for its iterator
RetryIter ==
    /\ retry.pc = "iter"
    /\ retry' = IterRetrying(retry)
    /\ UNCHANGED <<now, settings, bucket, pc, req, sleep, admitted, ncalls, minCost,
                   costs, log, lastCheck, cache, concurrency, ntexts,
                   held, cacheOp, client, export, lk, cc, waited,
                   fp, made>>

\* the operation is awaited once
RetryAttempt ==
    /\ retry.pc = "attempt"
    /\ retry' = RunAttempt(retry)
    /\ UNCHANGED <<now, settings, bucket, pc, req, sleep, admitted, ncalls, minCost,
                   costs, log, lastCheck, cache, concurrency, ntexts,
                   held, cacheOp, client, export, lk, cc, waited,
                   fp, made>>

\* the result or the exception reaches the caller of with_retries
RetryReturn ==
    /\ retry.pc = "done"
    /\ retry' = NoRetry(retry.tenacity)
    /\ UNCHANGED <<now, settings, bucket, pc, req, sleep, admitted, ncalls, minCost,
                   costs, log, lastCheck, cache, concurrency, ntexts,
                   held, cacheOp, client, export, lk, cc, waited,
                   fp, made>>

\* ------------------------------------------------------------ export_to_csv
\* exporters/csv_exporter.py.  A JSONL file is a sequence of lines; a parsed
\* JSON value is [type, value], an object being a function from its keys to
\* their values.

\* the lines an input file may hold
BlankLine == ""
SpaceLine == "   "
BadLine == "{oops"
EmptyObjectLine == "{}"
TitleOnlyLine == "{\"title\": \"t\"}"
UrlLine == "{\"url\": \"https://example.com/1\", \"content\": \"c\"}"
BareUrlLine == "{\"url\": \"example.com\"}"
ArrayLine == "[1, 2]"
LineArgs == {BlankLine, SpaceLine, BadLine, EmptyObjectLine, TitleOnlyLine,
             UrlLine, BareUrlLine, ArrayLine}
InputArgs == UNION {[1 .. n -> LineArgs] : n \in 0 .. MaxLines}

\* the ColumnMode values
ModeArgs == {"basic", "detailed", "full"}

\* line.strip()
Strip(line) == IF line = SpaceLine THEN BlankLine ELSE line

\* json.loads(line): <<>> stands for JSONDecodeError
JsonLoads(line) ==
    CASE line = EmptyObjectLine -> <<[type |-> "object", value |-> <<>>]>>
      [] line = TitleOnlyLine -> <<[type |-> "object", value |-> [title |-> "t"]]>>
      [] line = UrlLine ->
            <<[type |-> "object",
               value |-> [url |-> "https://example.com/1", content |-> "c"]]>>
      [] line = BareUrlLine ->
            <<[type |-> "object", value |-> [url |-> "example.com"]]>>
      [] line = ArrayLine -> <<[type |-> "array", value |-> <<1, 2>>]>>
      [] OTHER -> <<>>

\* _read_jsonl: blank lines are skipped, lines that do not parse are skipped
\* with a warning, every other line appends what json.loads returned
RECURSIVE ReadJsonl(_)
ReadJsonl(lines) ==
    IF lines = <<>> THEN <<>>
    ELSE LET line == Strip(Head(lines))
         IN IF line = BlankLine \/ JsonLoads(line) = <<>>
            THEN ReadJsonl(Tail(lines))
            ELSE <<JsonLoads(line)[1]>> \o ReadJsonl(Tail(lines))

\* None, as a cell value
NoneValue == "<None>"

\* record.get(key, default)
Get(record, key, default) ==
    IF key \in DOMAIN record THEN record[key] ELSE default

\* url.split("/")
SplitSlash(url) ==
    IF url = "https://example.com/1"
    THEN <<"https:", "", "example.com", "1">>
    ELSE <<url>>

\* `record.get("url", "").split("/")[2] if record.get("url") else ""`
SourceOf(record) ==
    IF Get(record, "url", "") = "" THEN [raised |-> "", value |-> ""]
    ELSE IF Len(SplitSlash(record.url)) < 3
         THEN [raised |-> "IndexError", value |-> ""]
         ELSE [raised |-> "", value |-> SplitSlash(record.url)[3]]

\* the keys every row of a mode has
ModeKeys(mode) ==
    IF mode = "basic" THEN {"url", "title", "content"}
    ELSE IF mode = "detailed" THEN {"url", "title", "content", "score", "source"}
         ELSE {"url", "title", "content", "score", "scraped_at", "source"}

\* _select_columns(record, mode): the row, or the exception it raises.
\* _flatten_dict runs first and calls data.items().
SelectColumns(parsed, mode) ==
    IF parsed.type # "object"
    THEN [raised |-> "AttributeError", row |-> <<>>]
    ELSE LET record == parsed.value
             keys == IF mode = "full" THEN ModeKeys(mode) \cup DOMAIN record
                     ELSE ModeKeys(mode)
         IN IF mode # "basic" /\ SourceOf(record).raised # ""
            THEN [raised |-> SourceOf(record).raised, row |-> <<>>]
            ELSE [raised |-> "",
                  row |-> [k \in keys |->
                             IF k = "source" THEN SourceOf(record).value
                             ELSE IF k = "score" THEN Get(record, k, NoneValue)
                             ELSE Get(record, k, "")]]

\* the first exception a pass over the records raises, "" if none does
RECURSIVE FirstRaised(_, _)
FirstRaised(records, mode) ==
    IF records = <<>> THEN ""
    ELSE IF SelectColumns(Head(records), mode).raised # ""
         THEN SelectColumns(Head(records), mode).raised
         ELSE FirstRaised(Tail(records), mode)

\* export_to_csv(input_path, output_path, mode): the exception that leaves it
\* ("" when it returns) and the output file, <<>> (not written) or <<rows>>,
\* the data rows below the header: DataFrame(selected_records).to_csv writes
\* one for each selected record
ExportToCsv(lines, mode) ==
    LET records == ReadJsonl(lines)
    IN IF records = <<>>
       THEN [raised |-> "", file |-> <<>>]
       ELSE IF FirstRaised(records, mode) # ""
            THEN [raised |-> FirstRaised(records, mode), file |-> <<>>]
            ELSE [raised |-> "",
                  file |-> <<[i \in DOMAIN records |->
                                SelectColumns(records[i], mode).row]>>]

NoExport ==
    [called |-> FALSE, lines |-> <<>>, mode |-> "", raised |-> "", file |-> <<>>]

\* a caller invokes export_to_csv on a file holding `lines`; the function
\* keeps no state between calls, so a behaviour holds one call
CallExportToCsv(lines, mode) ==
    /\ ~ export.called
    /\ export' = [called |-> TRUE, lines |-> lines, mode |-> mode,
                  raised |-> ExportToCsv(lines, mode).raised,
                  file |-> ExportToCsv(lines, mode).file]
    /\ UNCHANGED <<now, settings, bucket, pc, req, sleep, admitted, ncalls, minCost,
                   costs, log, lastCheck, cache, concurrency, ntexts,
                   retry, held, cacheOp, client, lk, cc, waited,
                   fp, made>>

\* ------------------------------------------------------- the component locks
\* The asyncio.Lock objects a request goes through, with entering and leaving
\* an `async with` as steps of their own: the limiter of its client
\* (rate_limiter.py:27), the cache of its client (api_cache.py:29, 40) and the
\* ledger shared by both (cost_tracker.py:28, 37).  What the sections compute
\* is left out; a request may end after an operation that can return or raise.
LockNames == {"rate_tavily", "rate_openai", "cache_tavily", "cache_openai", "ledger"}

RateLock(kind) == IF kind = "analyze" THEN "rate_openai" ELSE "rate_tavily"
CacheLock(kind) == IF kind = "analyze" THEN "cache_openai" ELSE "cache_tavily"

\* The awaits of a request.  lock: the lock the awaited call takes (<<>> for
\* none); sleeps: its section may await a sleep; skips: it may return without
\* taking the lock; ends: the request may end when it has returned.
\*   acquire      takes the limiter lock and may sleep inside it
\*   get          returns before the lock when the file does not exist; a hit
\*                ends the request
\*   post         the network call; an error ends the request
\*   within_budget  calls get_totals, which takes the ledger lock; it does
\*                not take the lock itself; a false answer ends the request
\*   add_cost     takes the ledger lock
\*   set          takes the cache lock
OpAcquire(kind) ==
    [name |-> "acquire", lock |-> <<RateLock(kind)>>, sleeps |-> TRUE,
     skips |-> FALSE, ends |-> FALSE]
OpCacheGet(kind) ==
    [name |-> "get", lock |-> <<CacheLock(kind)>>, sleeps |-> FALSE,
     skips |-> TRUE, ends |-> TRUE]
OpPost ==
    [name |-> "post", lock |-> <<>>, sleeps |-> FALSE, skips |-> FALSE,
     ends |-> TRUE]
OpWithinBudget ==
    [name |-> "within_budget", lock |-> <<"ledger">>, sleeps |-> FALSE,
     skips |-> FALSE, ends |-> TRUE]
OpAddCost ==
    [name |-> "add_cost", lock |-> <<"ledger">>, sleeps |-> FALSE,
     skips |-> FALSE, ends |-> FALSE]
OpCacheSet(kind) ==
    [name |-> "set", lock |-> <<CacheLock(kind)>>, sleeps |-> FALSE,
     skips |-> FALSE, ends |-> FALSE]

\* the awaits of analyze_text and of search, in order
Awaits(kind) ==
    IF kind = "analyze"
    THEN <<OpAcquire(kind), OpCacheGet(kind), OpPost, OpWithinBudget,
           OpAddCost, OpCacheSet(kind)>>
    ELSE <<OpAcquire(kind), OpCacheGet(kind), OpPost, OpCacheSet(kind),
           OpWithinBudget, OpAddCost>>

\* phase: "wait" (at the await, before the lock), "body" (inside the
\* section), "sleep" (inside the section, suspended in asyncio.sleep)
NoPosition == [kind |-> "none", i |-> 0, phase |-> ""]

NoLocks ==
    [owner |-> [l \in LockNames |-> NoTask], at |-> [t \in Tasks |-> NoPosition]]

\* the operation the request of task t is at
OpAt(t) == Awaits(lk.at[t].kind)[lk.at[t].i]

\* the locks task t holds
HeldBy(t) == {l \in LockNames : lk.owner[l] = t}

LeaveKeepsLock(owner, l) == owner

\* leaving `async with self._lock` releases the lock
Leave(owner, l) == [owner EXCEPT ![l] = NoTask]

\* the positions a request may be at once the operation at index i has
\* returned: the next await, or none when the request ended
After(kind, i) ==
    (IF i < Len(Awaits(kind))
     THEN {[kind |-> kind, i |-> i + 1, phase |-> "wait"]} ELSE {NoPosition})
    \cup (IF Awaits(kind)[i].ends THEN {NoPosition} ELSE {})

\* a caller invokes search or analyze_text
LockStart(t, kind) ==
    /\ lk.at[t] = NoPosition
    /\ ncalls < MaxRequests
    /\ ncalls' = ncalls + 1
    /\ lk' = [lk EXCEPT !.at[t] = [kind |-> kind, i |-> 1, phase |-> "wait"]]
    /\ UNCHANGED <<now, settings, bucket, pc, req, sleep, admitted, minCost,
                   costs, log, lastCheck, cache, concurrency, ntexts,
                   retry, held, cacheOp, client, export, cc, waited,
                   fp, made>>

\* the awaited call takes no lock on this pass (the network call, or get
\* when there is no file) and returns
LockPass(t) ==
    /\ lk.at[t].phase = "wait"
    /\ OpAt(t).lock = <<>> \/ OpAt(t).skips
    /\ \E next \in After(lk.at[t].kind, lk.at[t].i) :
          lk' = [lk EXCEPT !.at[t] = next]
    /\ UNCHANGED <<now, settings, bucket, pc, req, sleep, admitted, ncalls, minCost,
                   costs, log, lastCheck, cache, concurrency, ntexts,
                   retry, held, cacheOp, client, export, cc, waited,
                   fp, made>>

\* `async with self._lock:` is entered: the lock is free and becomes t's
LockEnter(t) ==
    /\ lk.at[t].phase = "wait"
    /\ OpAt(t).lock # <<>>
    /\ lk.owner[OpAt(t).lock[1]] = NoTask
    /\ lk' = [lk EXCEPT !.owner[OpAt(t).lock[1]] = t, !.at[t].phase = "body"]
    /\ UNCHANGED <<now, settings, bucket, pc, req, sleep, admitted, ncalls, minCost,
                   costs, log, lastCheck, cache, concurrency, ntexts,
                   retry, held, cacheOp, client, export, cc, waited,
                   fp, made>>

\* inside acquire's section the tokens do not cover the cost: the task
\* awaits asyncio.sleep without leaving the section
LockSleep(t) ==
    /\ lk.at[t].phase = "body"
    /\ OpAt(t).sleeps
    /\ lk' = [lk EXCEPT !.at[t].phase = "sleep"]
    /\ UNCHANGED <<now, settings, bucket, pc, req, sleep, admitted, ncalls, minCost,
                   costs, log, lastCheck, cache, concurrency, ntexts,
                   retry, held, cacheOp, client, export, cc, waited,
                   fp, made>>

\* the sleep is over: the loop of acquire runs again
LockWake(t) ==
    /\ lk.at[t].phase = "sleep"
    /\ lk' = [lk EXCEPT !.at[t].phase = "body"]
    /\ UNCHANGED <<now, settings, bucket, pc, req, sleep, admitted, ncalls, minCost,
                   costs, log, lastCheck, cache, concurrency, ntexts,
                   retry, held, cacheOp, client, export, cc, waited,
                   fp, made>>

\* the section is left and the awaited call returns
LockLeave(t) ==
    /\ lk.at[t].phase = "body"
    /\ \E next \in After(lk.at[t].kind, lk.at[t].i) :
          lk' = [lk EXCEPT !.owner = Leave(lk.owner, OpAt(t).lock[1]),
                           !.at[t] = next]
    /\ UNCHANGED <<now, settings, bucket, pc, req, sleep, admitted, ncalls, minCost,
                   costs, log, lastCheck, cache, concurrency, ntexts,
                   retry, held, cacheOp, client, export, cc, waited,
                   fp, made>>

\* some step of the request of task t
LockStep(t) ==
    LockPass(t) \/ LockEnter(t) \/ LockSleep(t) \/ LockWake(t) \/ LockLeave(t)

\* ------------------------------------------------- APICache, concurrent calls
\* get, set and clear as several tasks run them on one APICache object, with
\* entering `async with self._lock` as a step of its own and write_text as
\* its two effects on the file (open(..., "w") empties it, write fills it).
\*   get:   _key_to_path and path.exists() (before the lock); the lock;
\*          read_text and json.loads
\*   set:   _key_to_path and mkdir (before the lock); the lock; write_text
\*   clear: the lock; every file below the base directory is unlinked
\* The keys are fingerprints utf-8 can encode, and the file system works.
ConcurrentNamespaces == {"tavily", "openai_analyze"}
ConcurrentKeys == {"a", "b"}
ConcurrentPayloads == {[documents |-> "d1"], [documents |-> "d2"]}
ConcurrentClears == {<<>>, <<"tavily">>}

\* exists: what path.exists() answered to a get
NoCall ==
    [op |-> "none", phase |-> "", namespace |-> <<>>, key |-> "",
     value |-> <<>>, exists |-> FALSE, ret |-> <<>>, raised |-> ""]

\* written: for each entry, the payloads the set calls so far were given
NoCalls ==
    [lock |-> NoTask, at |-> [t \in Tasks |-> NoCall],
     written |-> [ns \in NamespaceArgs |-> [k \in KeyArgs |-> {}]]]

ReadFileUnguarded(c, namespace, key) ==
    IF c[namespace][key] = <<>>
    THEN [ret |-> <<>>, raised |-> "FileNotFoundError"]
    ELSE IF c[namespace][key] = <<Garbage>>
         THEN [ret |-> <<>>, raised |-> "JSONDecodeError"]
         ELSE [ret |-> c[namespace][key], raised |-> ""]

\* the `try` of get: read_text and json.loads, `except Exception: return None`
ReadFile(c, namespace, key) ==
    IF c[namespace][key] = <<>> \/ c[namespace][key] = <<Garbage>>
    THEN [ret |-> <<>>, raised |-> ""]
    ELSE [ret |-> c[namespace][key], raised |-> ""]

\* a task calls cache.get(ns, key): up to `async with self._lock`, get
\* returns None if the file does not exist
ConcurrentGet(t, ns, key) ==
    /\ cc.at[t].op = "none"
    /\ ncalls < MaxCalls
    /\ ncalls' = ncalls + 1
    /\ cc' = [cc EXCEPT !.at[t] =
                 [NoCall EXCEPT !.op = "get", !.namespace = <<ns>>, !.key = key,
                                !.exists = cache[ns][key] # <<>>,
                                !.phase = IF cache[ns][key] = <<>>
                                          THEN "returned" ELSE "lock"]]
    /\ UNCHANGED <<now, settings, bucket, pc, req, sleep, admitted, minCost,
                   costs, log, lastCheck, cache, concurrency, ntexts,
                   retry, held, cacheOp, client, export, lk, waited,
                   fp, made>>

\* a task calls cache.set(ns, key, value): up to `async with self._lock`
ConcurrentSet(t, ns, key, value) ==
    /\ cc.at[t].op = "none"
    /\ ncalls < MaxCalls
    /\ ncalls' = ncalls + 1
    /\ cc' = [cc EXCEPT !.at[t] =
                 [NoCall EXCEPT !.op = "set", !.namespace = <<ns>>, !.key = key,
                                !.value = <<value>>, !.phase = "lock"],
                        !.written[ns][key] = @ \cup {value}]
    /\ UNCHANGED <<now, settings, bucket, pc, req, sleep, admitted, minCost,
                   costs, log, lastCheck, cache, concurrency, ntexts,
                   retry, held, cacheOp, client, export, lk, waited,
                   fp, made>>

\* a task calls cache.clear(namespace)
ConcurrentClear(t, namespace_arg) ==
    /\ cc.at[t].op = "none"
    /\ ncalls < MaxCalls
    /\ ncalls' = ncalls + 1
    /\ cc' = [cc EXCEPT !.at[t] =
                 [NoCall EXCEPT !.op = "clear", !.namespace = namespace_arg,
                                !.phase = "lock"]]
    /\ UNCHANGED <<now, settings, bucket, pc, req, sleep, admitted, minCost,
                   costs, log, lastCheck, cache, concurrency, ntexts,
                   retry, held, cacheOp, client, export, lk, waited,
                   fp, made>>

\* `async with self._lock:` is entered
ConcurrentEnter(t) ==
    /\ cc.at[t].phase = "lock"
    /\ cc.lock = NoTask
    /\ cc' = [cc EXCEPT !.lock = t, !.at[t].phase = "body"]
    /\ UNCHANGED <<now, settings, bucket, pc, req, sleep, admitted, ncalls, minCost,
                   costs, log, lastCheck, cache, concurrency, ntexts,
                   retry, held, cacheOp, client, export, lk, waited,
                   fp, made>>

\* inside the section of set, write_text has opened the file: it is empty
ConcurrentOpen(t) ==
    /\ cc.at[t].phase = "body"
    /\ cc.at[t].op = "set"
    /\ cache' = [cache EXCEPT ![cc.at[t].namespace[1]][cc.at[t].key] = <<Garbage>>]
    /\ cc' = [cc EXCEPT !.at[t].phase = "opened"]
    /\ UNCHANGED <<now, settings, bucket, pc, req, sleep, admitted, ncalls, minCost,
                   costs, log, lastCheck, concurrency, ntexts,
                   retry, held, cacheOp, client, export, lk, waited,
                   fp, made>>

\* the rest of the section, and the lock is released: get reads and parses,
\* set writes the text, clear unlinks
ConcurrentLeave(t) ==
    /\ \/ cc.at[t].phase = "body" /\ cc.at[t].op \in {"get", "clear"}
       \/ cc.at[t].phase = "opened"
    /\ LET call == cc.at[t]
       IN IF call.op = "get"
          THEN /\ cache' = cache
               /\ cc' = [cc EXCEPT
                     !.lock = NoTask,
                     !.at[t].phase = "returned",
                     !.at[t].ret = ReadFile(cache, call.namespace[1], call.key).ret,
                     !.at[t].raised = ReadFile(cache, call.namespace[1], call.key).raised]
          ELSE /\ cache' = IF call.op = "set"
                           THEN CacheSet(cache, call.namespace[1], call.key, call.value[1])
                           ELSE CacheClear(cache, call.namespace)
               /\ cc' = [cc EXCEPT !.lock = NoTask, !.at[t].phase = "returned"]
    /\ UNCHANGED <<now, settings, bucket, pc, req, sleep, admitted, ncalls, minCost,
                   costs, log, lastCheck, concurrency, ntexts,
                   retry, held, cacheOp, client, export, lk, waited,
                   fp, made>>

\* the caller has the result
ConcurrentReturn(t) ==
    /\ cc.at[t].phase = "returned"
    /\ cc' = [cc EXCEPT !.at[t] = NoCall]
    /\ UNCHANGED <<now, settings, bucket, pc, req, sleep, admitted, ncalls, minCost,
                   costs, log, lastCheck, cache, concurrency, ntexts,
                   retry, held, cacheOp, client, export, lk, waited,
                   fp, made>>

\* ------------------------------------------------------ cache fingerprints
\* The key strings search and analyze_text build and hand to APICache, and
\* the file _key_to_path gives each.  An interpreter run has a hash seed
\* (PYTHONHASHSEED, random unless the environment fixes it); the cache
\* directory outlives the run.

HashSeeds == {1, 2}

\* the arguments of search; Optional values: <<>> is None, <<v>> is v
MaxResultsArgs == {<<>>, <<5>>}
DomainArgs == {<<>>, <<<<"x.com", "y.com">>>>, <<<<"x.com,y.com">>>>}
\* the settings analyze_text reads from the client (temperature in tenths)
ModelArgs == {"gpt-4-turbo-preview", "gpt-3.5-turbo"}
TemperatureArgs == {3, 7}
MaxTokensArgs == {512, 4096}
KeyTextArgs == {"a", "b"}
\* settings.api.tavily.max_results
DefaultMaxResults == 10

\* `x or default` for an Optional[int]
OrDefault(x, default) == IF x = <<>> \/ x[1] = 0 THEN default ELSE x[1]
\* `xs or []` for an Optional[List[str]]
OrEmpty(xs) == IF xs = <<>> THEN <<>> ELSE xs[1]

\* ','.join(xs)
RECURSIVE Join(_)
Join(xs) ==
    IF xs = <<>> THEN ""
    ELSE IF Len(xs) = 1 THEN xs[1]
         ELSE xs[1] \o "," \o Join(Tail(xs))

\* how an f-string prints a float given in tenths
FormatFloat(tenths) == ToString(tenths \div 10) \o "." \o ToString(tenths % 10)

\* hash(text): the str hash is keyed by the hash seed of the interpreter.
\* The numbers stand for the 64-bit values; distinct (seed, text) pairs get
\* distinct ones here.
StrHash(seed, text) == seed * 7919 + TextIndex(text) * 104729

\* cache_key of search
SearchKey(query, max_results, include_domains, exclude_domains) ==
    "q=" \o query
        \o "|max=" \o ToString(OrDefault(max_results, DefaultMaxResults))
        \o "|inc=" \o Join(OrEmpty(include_domains))
        \o "|exc=" \o Join(OrEmpty(exclude_domains))

\* cache_key of analyze_text, in an interpreter with hash seed `seed`
AnalyzeKey(model, temperature, max_tokens, text, seed) ==
    "model=" \o model
        \o "|temp=" \o FormatFloat(temperature)
        \o "|max=" \o ToString(max_tokens)
        \o "|text_hash=" \o ToString(StrHash(seed, text))

\* _key_to_path: <base_dir>/<namespace>/<sha256 of the key>.json.  The digest
\* is kept as the key it was taken of: distinct keys have distinct digests.
KeyToPath(namespace, key) == <<namespace, key>>

\* the parameters a request is made with, as the provider sees them
SearchParams(query, max_results, include_domains, exclude_domains) ==
    [kind |-> "search", query |-> query,
     max_results |-> OrDefault(max_results, DefaultMaxResults),
     include_domains |-> OrEmpty(include_domains),
     exclude_domains |-> OrEmpty(exclude_domains)]

AnalyzeParams(model, temperature, max_tokens, text) ==
    [kind |-> "analyze", model |-> model, temperature |-> temperature,
     max_tokens |-> max_tokens, text |-> text]

\* files: the cache files on disk, each with the parameters of the request
\* whose result it holds.  last: the last request, whether a result for the
\* same parameters was on disk, and the file its get found (<<>>: a miss).
NoFingerprints ==
    [seed |-> 1, requests |-> 0, files |-> {},
     last |-> [params |-> <<>>, path |-> <<>>, stored_same |-> FALSE,
               found |-> <<>>]]

\* a request with parameters `params` looks up `path`; on a miss it is
\* served by the provider and its result is written to `path`
Lookup(f, params, path) ==
    LET hit == {e \in f.files : e.path = path}
    IN [f EXCEPT
          !.requests = @ + 1,
          !.last = [params |-> params, path |-> path,
                    stored_same |-> \E e \in f.files : e.params = params,
                    found |-> IF hit = {} THEN <<>>
                              ELSE <<(CHOOSE e \in hit : TRUE).params>>],
          !.files = IF hit = {} THEN @ \cup {[path |-> path, params |-> params]}
                    ELSE @]

\* client.search(query, max_results, include_domains, exclude_domains)
FingerprintSearch(query, max_results, include_domains, exclude_domains) ==
    /\ fp.requests < MaxKeyRequests
    /\ fp' = Lookup(fp,
                    SearchParams(query, max_results, include_domains,
                                 exclude_domains),
                    KeyToPath("tavily",
                              SearchKey(query, max_results, include_domains,
                                        exclude_domains)))
    /\ UNCHANGED <<now, settings, bucket, pc, req, sleep, admitted, ncalls, minCost,
                   costs, log, lastCheck, cache, concurrency, ntexts,
                   retry, held, cacheOp, client, export, lk, cc, waited,
                   made>>

\* client.analyze_text(text) on a client configured with model, temperature
\* and max_tokens
FingerprintAnalyze(model, temperature, max_tokens, text) ==
    /\ fp.requests < MaxKeyRequests
    /\ fp' = Lookup(fp,
                    AnalyzeParams(model, temperature, max_tokens, text),
                    KeyToPath("openai_analyze",
                              AnalyzeKey(model, temperature, max_tokens, text,
                                         fp.seed)))
    /\ UNCHANGED <<now, settings, bucket, pc, req, sleep, admitted, ncalls, minCost,
                   costs, log, lastCheck, cache, concurrency, ntexts,
                   retry, held, cacheOp, client, export, lk, cc, waited,
                   made>>

\* the program is started again: a new interpreter with its own hash seed
NewRun(seed) ==
    /\ fp.seed # seed
    /\ fp' = [fp EXCEPT !.seed = seed]
    /\ UNCHANGED <<now, settings, bucket, pc, req, sleep, admitted, ncalls, minCost,
                   costs, log, lastCheck, cache, concurrency, ntexts,
                   retry, held, cacheOp, client, export, lk, cc, waited,
                   made>>

\* ------------------------------------------------------------------- Init

\* config.py defaults
DefaultSettings ==
    [daily_budget |-> 2000, per_request_max |-> 1000,
     tavily_rpm |-> 60, openai_rpm |-> 3500, max_retries |-> 3,
     model |-> "gpt-4-turbo-preview", fallback_model |-> "gpt-3.5-turbo",
     tavily_api_key |-> <<>>, openai_api_key |-> <<>>]

Namespaces == {"tavily", "openai_analyze"}
Texts == QueryArgs \cup TextArgs

\* an empty cache directory
EmptyCache(namespaces, keys) == [ns \in namespaces |-> [k \in keys |-> <<>>]]

\* the limiters the clients create for themselves
DefaultLimiters ==
    [l \in Limiters |->
        IF l = "tavily" THEN NewLimiter(settings.tavily_rpm, <<>>, 0)
        ELSE NewLimiter(settings.openai_rpm, <<>>, 0)]

\* both clients constructed with a key argument
ReadyClients == [k \in ClientKinds |-> NewClient(<<"sk-arg">>, <<>>)]

InitCommon ==
    /\ now = 0
    /\ pc = [t \in Tasks |-> "idle"]
    /\ req = [t \in Tasks |-> NoReq]
    /\ sleep = [t \in Tasks |-> NoSleep]
    /\ admitted = [l \in Limiters |-> 0]
    /\ ncalls = 0
    /\ minCost = 0
    /\ costs = [tavily_usd |-> 0, openai_usd |-> 0]
    /\ log = <<>>
    /\ lastCheck = NoCheck
    /\ ntexts = 0
    /\ held = NoHeld
    /\ export = NoExport
    /\ lk = NoLocks
    /\ cc = NoCalls
    /\ waited = 0
    /\ fp = NoFingerprints
    /\ made = NoLimiter

InitRL ==
    /\ InitCommon
    /\ settings = DefaultSettings
    /\ concurrency = NTasks
    /\ \E r \in RateArgs, bu \in BurstArgs :
          bucket = [l \in Limiters |->
                      IF l = "tavily" THEN NewLimiter(r, bu, 0)
                      ELSE NewLimiter(settings.openai_rpm, <<>>, 0)]
    /\ cache = EmptyCache(Namespaces, Texts)
    /\ retry = NoRetry("async_for")
    /\ cacheOp = NoCacheOp
    /\ client = ReadyClients

NextRL ==
    \/ Tick
    \/ \E t \in Tasks, c \in CostArgs : CallAcquire(t, c)
    \/ \E t \in Tasks : AcquireEnter(t)
    \/ \E t \in Tasks : AcquireWake(t)

SpecRL == InitRL /\ [][NextRL]_vars

\* the limiter with time that keeps advancing: a sleep that is over ends,
\* and asyncio.Lock hands the lock to its waiters in the order they came, so
\* a waiter that finds the lock free again and again gets it
NextRLFair ==
    \/ Elapse
    \/ \E t \in Tasks, c \in CostArgs : CallAcquire(t, c)
    \/ \E t \in Tasks : AcquireEnter(t)
    \/ \E t \in Tasks : AcquireWake(t)

SpecRLFair ==
    /\ InitRL
    /\ [][NextRLFair]_vars
    /\ WF_vars(Elapse)
    /\ \A t \in Tasks : WF_vars(AcquireWake(t))
    /\ \A t \in Tasks : SF_vars(AcquireEnter(t))

InitLedger ==
    /\ InitCommon
    /\ \E d \in DailyBudgetArgs : settings = [DefaultSettings EXCEPT !.daily_budget = d]
    /\ concurrency = NTasks
    /\ bucket = DefaultLimiters
    /\ cache = EmptyCache(Namespaces, Texts)
    /\ retry = NoRetry("async_for")
    /\ cacheOp = NoCacheOp
    /\ client = ReadyClients

NextLedger ==
    \/ \E s \in ServiceArgs, a \in AmountArgs : LedgerAddCost(s, a)
    \/ \E x \in AmountArgs : LedgerWithinBudget(x)

SpecLedger == InitLedger /\ [][NextLedger]_vars

\* the ledger with callers that keep what get_totals returned
NextSnapshot ==
    \/ \E s \in ServiceArgs, a \in AmountArgs : LedgerAddCost(s, a)
    \/ LedgerGetTotals
    \/ \E f \in FieldArgs, a \in AmountArgs : HolderWrites(f, a)

SpecSnapshot == InitLedger /\ [][NextSnapshot]_vars

\* with_retries alone, under either tenacity
InitRetry ==
    /\ InitCommon
    /\ settings = DefaultSettings
    /\ concurrency = NTasks
    /\ bucket = DefaultLimiters
    /\ cache = EmptyCache(Namespaces, Texts)
    /\ \E b \in TenacityBuilds : retry = NoRetry(b)
    /\ cacheOp = NoCacheOp
    /\ client = ReadyClients

NextRetry ==
    \/ \E o \in OperationArgs, n \in AttemptsArgs, k \in RetryOnArgs,
          w \in WaitArgs :
          CallWithRetries(o, n, k, w)
    \/ RetryIter
    \/ RetryAttempt
    \/ RetryReturn

SpecRetry == InitRetry /\ [][NextRetry]_vars

\* the cache alone, called directly
InitCache ==
    /\ InitCommon
    /\ settings = DefaultSettings
    /\ concurrency = NTasks
    /\ bucket = DefaultLimiters
    /\ cache = EmptyCache(NamespaceArgs, KeyArgs)
    /\ retry = NoRetry("async_for")
    /\ cacheOp = NoCacheOp
    /\ client = ReadyClients

NextCache ==
    \/ \E ns \in NamespaceArgs, k \in KeyArgs : CallCacheGet(ns, k)
    \/ \E ns \in NamespaceArgs, k \in KeyArgs, v \in PayloadArgs, io \in IOArgs :
          CallCacheSet(ns, k, v, io)
    \/ \E a \in ClearArgs : CallCacheClear(a)
    \/ \E ns \in NamespaceArgs, k \in KeyArgs : DamageFile(ns, k)

SpecCache == InitCache /\ [][NextCache]_vars

\* the exporter alone
InitExport ==
    /\ InitCommon
    /\ settings = DefaultSettings
    /\ concurrency = NTasks
    /\ bucket = DefaultLimiters
    /\ cache = EmptyCache(Namespaces, Texts)
    /\ retry = NoRetry("async_for")
    /\ cacheOp = NoCacheOp
    /\ client = ReadyClients

NextExport == \E lines \in InputArgs, mode \in ModeArgs : CallExportToCsv(lines, mode)

SpecExport == InitExport /\ [][NextExport]_vars

\* requests of both clients, seen as users of the locks
NextLocks ==
    \/ \E t \in Tasks, k \in ClientKinds : LockStart(t, k)
    \/ \E t \in Tasks : LockPass(t)
    \/ \E t \in Tasks : LockEnter(t)
    \/ \E t \in Tasks : LockSleep(t)
    \/ \E t \in Tasks : LockWake(t)
    \/ \E t \in Tasks : LockLeave(t)

SpecLocks == InitExport /\ [][NextLocks]_vars

\* one cache object, called by several tasks at once
NextConcurrentCache ==
    \/ \E t \in Tasks, ns \in ConcurrentNamespaces, k \in ConcurrentKeys :
          ConcurrentGet(t, ns, k)
    \/ \E t \in Tasks, ns \in ConcurrentNamespaces, k \in ConcurrentKeys,
          v \in ConcurrentPayloads : ConcurrentSet(t, ns, k, v)
    \/ \E t \in Tasks, a \in ConcurrentClears : ConcurrentClear(t, a)
    \/ \E t \in Tasks : ConcurrentEnter(t)
    \/ \E t \in Tasks : ConcurrentOpen(t)
    \/ \E t \in Tasks : ConcurrentLeave(t)
    \/ \E t \in Tasks : ConcurrentReturn(t)

SpecConcurrentCache == InitCache /\ [][NextConcurrentCache]_vars

Init ==
    /\ InitCommon
    /\ \E d \in Deployments :
          /\ settings = [DefaultSettings EXCEPT
                            !.daily_budget = d.daily_budget,
                            !.per_request_max = d.per_request_max]
          /\ concurrency = d.concurrency
    /\ bucket = DefaultLimiters
    /\ cache = EmptyCache(Namespaces, Texts)
    /\ retry = NoRetry("async_for")
    /\ cacheOp = NoCacheOp
    /\ client = ReadyClients

Next ==
    \/ \E t \in Tasks, x \in QueryArgs : Start(t, "search", x)
    \/ \E t \in Tasks, x \in TextArgs : Start(t, "analyze", x)
    \/ \E t \in Tasks : AcquireEnter(t)
    \/ \E t \in Tasks : CacheLookup(t)
    \/ \E t \in Tasks : Post(t)
    \/ \E t \in Tasks : FallbackPost(t)
    \/ \E t \in Tasks : CheckDailyBudget(t)
    \/ \E t \in Tasks : CommitCost(t)
    \/ \E t \in Tasks : CacheStore(t)
    \/ \E t \in Tasks : Return(t)

Spec == Init /\ [][Next]_vars

\* the clients from their construction on, one request at a time
InitClient ==
    /\ InitCommon
    /\ \E kt \in ConfiguredKeyArgs, ko \in ConfiguredKeyArgs :
          settings = [DefaultSettings EXCEPT !.tavily_api_key = kt,
                                             !.openai_api_key = ko]
    /\ concurrency = 1
    /\ bucket = DefaultLimiters
    /\ cache = EmptyCache(Namespaces, Texts)
    /\ retry = NoRetry("async_for")
    /\ cacheOp = NoCacheOp
    /\ client = [k \in ClientKinds |-> NoClient]

NextClient ==
    \/ \E k \in ClientKinds, a \in ApiKeyArgs : ConstructClient(k, a)
    \/ Next

SpecClient == InitClient /\ [][NextClient]_vars

\* the clients under any configured models: settings.api.openai.model and
\* fallback_model name models of the price table or others ("gpt-4o")
ConfiguredModelArgs == {"gpt-4-turbo-preview", "gpt-3.5-turbo", "gpt-4o"}
ConfiguredFallbackArgs == {"gpt-3.5-turbo", "gpt-4o"}

InitPricing ==
    /\ InitCommon
    /\ \E m \in ConfiguredModelArgs, f \in ConfiguredFallbackArgs :
          settings = [DefaultSettings EXCEPT !.model = m, !.fallback_model = f]
    /\ concurrency = 1
    /\ bucket = DefaultLimiters
    /\ cache = EmptyCache(Namespaces, Texts)
    /\ retry = NoRetry("async_for")
    /\ cacheOp = NoCacheOp
    /\ client = ReadyClients

SpecPricing == InitPricing /\ [][Next]_vars

\* the cache keys of requests over several runs of the program
NextFingerprints ==
    \/ \E q \in QueryArgs, m \in MaxResultsArgs, i \in DomainArgs, e \in DomainArgs :
          FingerprintSearch(q, m, i, e)
    \/ \E m \in ModelArgs, c \in TemperatureArgs, k \in MaxTokensArgs,
          x \in KeyTextArgs :
          FingerprintAnalyze(m, c, k, x)
    \/ \E s \in HashSeeds : NewRun(s)

SpecFingerprints == InitExport /\ [][NextFingerprints]_vars

\* limiters constructed at any time with any arguments
NextConstruct ==
    \/ \E r \in ConstructRateArgs, b \in ConstructBurstArgs : ConstructLimiter(r, b)
    \/ Tick

SpecConstruct == InitExport /\ [][NextConstruct]_vars

\* ------------------------------------------------------------------ claims

\* C3 (as stated): in every reachable state of the limiter, for any callers,
\* any acquire costs and any passage of time, 0 <= tokens <= capacity.
C3_AnyCosts == 0 <= bucket["tavily"].tokens /\ bucket["tavily"].tokens <= bucket["tavily"].capacity

\* C3 (amended): as long as every acquire call so far had a cost >= 0 (and
\* the capacity is >= 0), 0 <= tokens <= capacity in every reachable state.
C3_TokensInRange ==
    (minCost >= 0 /\ bucket["tavily"].capacity >= 0)
        => (0 <= bucket["tavily"].tokens /\ bucket["tavily"].tokens <= bucket["tavily"].capacity)

\* C3 witness: a positive-cost acquire has debited a bucket that was refilled
\* after time passed, all costs so far being >= 0.
C3_Witness ==
    /\ minCost >= 0
    /\ admitted["tavily"] > 0
    /\ bucket["tavily"].last_refill > 0
    /\ bucket["tavily"].tokens < bucket["tavily"].capacity

\* C4: the sum of the costs of the acquires that have returned by time t is
\* at most capacity + (t - t0) * rate_per_minute / 60, with t0 = 0 the
\* construction time.
C4_AdmittedRateBound ==
    admitted["tavily"] <= bucket["tavily"].capacity + now * bucket["tavily"].rate_per_minute

\* C4 witness: a caller that had to sleep for its shortfall has returned, and
\* the admitted total exceeds the initial capacity.
C4_Witness ==
    /\ admitted["tavily"] > bucket["tavily"].capacity
    /\ bucket["tavily"].last_refill > 0
    /\ \A t \in Tasks : pc[t] = "idle"

\* the sum of the amounts of the log entries for one service
RECURSIVE SumFor(_, _)
SumFor(lg, service) ==
    IF lg = <<>> THEN 0
    ELSE (IF Head(lg)[1] = service THEN Head(lg)[2] ELSE 0) + SumFor(Tail(lg), service)

\* C5: after any sequence of add_cost calls each service's total is the sum of
\* the amounts added for that service, the grand total is the sum over the two
\* recognised services, and calls naming another service change nothing.
C5_LedgerAdditivity ==
    /\ costs.tavily_usd = SumFor(log, "tavily")
    /\ costs.openai_usd = SumFor(log, "openai")
    /\ Total(GetTotals(costs)) = SumFor(log, "tavily") + SumFor(log, "openai")

\* C5 witness: add_cost was called for both services and for an unrecognised
\* one, with non-zero amounts.
C5_Witness ==
    /\ \E i \in DOMAIN log : log[i][1] = "serpapi" /\ log[i][2] > 0
    /\ \E i \in DOMAIN log : log[i][1] = "tavily" /\ log[i][2] > 0
    /\ \E i \in DOMAIN log : log[i][1] = "openai" /\ log[i][2] > 0

\* C6: within_budget(x) answers true exactly when tavily total + openai total
\* + x <= daily budget (equality included), and a within_budget call leaves
\* the ledger as it was.
C6_WithinBudgetIff ==
    /\ [](lastCheck.called =>
            (lastCheck.ret <=>
               lastCheck.seen.tavily_usd + lastCheck.seen.openai_usd
                   + lastCheck.extra <= settings.daily_budget))
    /\ [][lastCheck' # lastCheck => costs' = costs /\ costs = lastCheck'.seen]_vars

\* C6 witness: a within_budget call whose sum met the daily budget exactly,
\* with spend on both services, answered true.
C6_Witness ==
    /\ lastCheck.called /\ lastCheck.ret
    /\ lastCheck.seen.tavily_usd > 0 /\ lastCheck.seen.openai_usd > 0
    /\ Total(lastCheck.seen) + lastCheck.extra = settings.daily_budget

\* the requests that have ended (returned or raised) and not yet been
\* handed back to the caller
Ended == {t \in Tasks : pc[t] = "done"}

\* C1: a request whose estimate fails the ledger's within_budget check ends
\* with the budget error having done no add_cost and no cache set; with one
\* request at a time, the ledger total is what it was when the estimate was made.
C1_BudgetFailureLeavesNoTrace ==
    \A t \in Ended :
        req[t].stage = "daily_gate" =>
            /\ req[t].outcome = "CostLimitExceededError"
            /\ req[t].effects \cap {"add_cost", "cache_set"} = {}
            /\ concurrency = 1 => Total(costs) = req[t].gate_total

\* C2: a request that finds its fingerprint in the cache returns the cached
\* result with no network call and no debit of the rate limiter's bucket.
C2_CacheHitNoDebit ==
    \A t \in Ended :
        req[t].outcome = "cached" =>
            /\ req[t].netcalls = 0
            /\ "debit" \notin req[t].effects

\* C7: with analysis requests issued one after another, a request that got
\* its estimate commits exactly when estimate <= per-request max and ledger
\* total + estimate <= daily budget; the ledger total is the sum of the
\* committed estimates and never exceeds the daily budget.
C7_SequentialBudget ==
    concurrency = 1 =>
        /\ \A t \in Ended :
              (req[t].kind = "analyze" /\ "estimate" \in req[t].effects) =>
                 LET before == req[t].gate_total
                     ok == /\ req[t].est <= settings.per_request_max
                           /\ before + req[t].est <= settings.daily_budget
                 IN /\ req[t].outcome = "success" <=> ok
                    /\ req[t].outcome # "success" =>
                          req[t].outcome = "CostLimitExceededError"
                    /\ Total(costs) = IF ok THEN before + req[t].est ELSE before
        /\ Total(costs) = SumFor(log, "openai") + SumFor(log, "tavily")
        /\ Total(costs) <= settings.daily_budget

\* C7 witness: daily budget 1.00, per-request max 0.50: after two requests
\* estimated at 0.40 committed (total 0.80), a third one estimated at 0.40
\* ended with the daily budget error and the total still 0.80.
C7_Witness ==
    /\ concurrency = 1
    /\ settings.daily_budget = 2000 /\ settings.per_request_max = 1000
    /\ log = <<(<<"openai", 800>>), (<<"openai", 800>>)>>
    /\ Total(costs) = 1600
    /\ \E t \in Ended :
          /\ req[t].kind = "analyze" /\ req[t].est = 800
          /\ req[t].stage = "daily_gate"
          /\ req[t].outcome = "CostLimitExceededError"

\* C8: an estimate strictly above the per-request maximum ends the request
\* with the budget error at once: no within_budget call, no add_cost, no
\* cache set; an estimate equal to the maximum passes this gate.
C8_PerRequestGate ==
    \A t \in Tasks :
        (req[t].kind = "analyze" /\ "estimate" \in req[t].effects) =>
            /\ req[t].est > settings.per_request_max =>
                  /\ pc[t] = "done"
                  /\ req[t].stage = "per_request_gate"
                  /\ req[t].outcome = "CostLimitExceededError"
                  /\ req[t].effects \cap {"within_budget", "add_cost", "cache_set"} = {}
            /\ req[t].est <= settings.per_request_max =>
                  /\ req[t].stage # "per_request_gate"
                  /\ "within_budget" \in req[t].effects \/ pc[t] = "within_budget"

\* C8 witness: a request was rejected for an estimate above the maximum
\* after another, estimated at exactly the maximum, had committed.
C8_Witness ==
    /\ \E t \in Ended :
          /\ req[t].est > settings.per_request_max
          /\ req[t].stage = "per_request_gate"
    /\ \E i \in DOMAIN log : log[i] = <<"openai", settings.per_request_max>>

\* the last network call of the request failed
DispatchFailed(r) == r.neterr # ""

\* C9: a request whose network call failed (transport error, bad status, or
\* a failed fallback call) does no add_cost and no cache set at any point,
\* and the step at which it fails leaves the ledger and the cache as they are.
C9_DispatchFailureFrame ==
    /\ [](\A t \in Tasks :
            DispatchFailed(req[t]) =>
                req[t].effects \cap {"within_budget", "add_cost", "cache_set"} = {})
    /\ [][\A t \in Tasks :
            (DispatchFailed(req'[t]) /\ req'[t] # req[t]) =>
                (costs' = costs /\ cache' = cache /\ log' = log)]_vars

\* C9 witness: with a ledger and a cache that are not empty, a request ended
\* at a failed fallback call.
C9_Witness ==
    /\ Total(costs) > 0
    /\ \E t \in Ended :
          /\ req[t].stage = "fallback" /\ DispatchFailed(req[t])
          /\ \E x \in Texts : cache["openai_analyze"][x] # <<>>

\* C10: a transport error, timeout or transient status (429/500/503) reaches
\* the caller only after the call was issued the configured number of times.
C10_RetriedBeforeSurfacing ==
    \A t \in Ended :
        (DispatchFailed(req[t])
            /\ (req[t].neterr = "RequestError" \/ FallbackStatus(req[t].status)))
        => req[t].netcalls = settings.max_retries

\* the with_retries call has ended: it returned or raised
RetryEnded == retry.pc = "done"

\* the operation raises an error of a kind in retry_on on each of its first n
\* calls
AlwaysRetryable(r, n) ==
    \A i \in 1 .. n : r.operation[i] # "ok" /\ r.operation[i] \in r.retry_on

\* C11: with attempts = n >= 1, an operation that raises a retryable error on
\* every call is invoked exactly n times and its own error is re-raised; an
\* operation that first succeeds on its k-th call, k <= n, is invoked exactly
\* k times and with_retries returns.
C11_RetryExhaustion ==
    RetryEnded =>
        /\ AlwaysRetryable(retry, retry.attempts) =>
              /\ retry.calls = retry.attempts
              /\ retry.outcome = "raise"
              /\ retry.error = retry.operation[retry.attempts]
        /\ \A k \in 1 .. retry.attempts :
              (AlwaysRetryable(retry, k - 1) /\ retry.operation[k] = "ok") =>
                 /\ retry.calls = k
                 /\ retry.outcome = "return"

\* C12: an operation whose first call raises an error of a kind that is not
\* in retry_on is invoked exactly once, and with_retries raises that error
\* with no backoff, whatever attempts is.
C12_NonRetryablePropagates ==
    RetryEnded =>
        ((retry.operation[1] # "ok" /\ retry.operation[1] \notin retry.retry_on) =>
            /\ retry.calls = 1
            /\ retry.backoffs = 0
            /\ retry.outcome = "raise"
            /\ retry.error = retry.operation[1])

\* the first network call of the analyze_text request r came back with an
\* error status, and no second call has been made
FirstCallBadStatus(r) ==
    r.kind = "analyze" /\ r.netcalls = 1 /\ r.neterr = "HTTPStatusError"

\* C13: analyze_text makes a second network call if and only if the first
\* came back with status 429, 500 or 503; the second call names the fallback
\* model and there is no third; any other error status ends the request with
\* the provider error after the one call.
C13_FallbackOnce ==
    /\ [](\A t \in Tasks :
            /\ req[t].netcalls <= 2
            /\ (FirstCallBadStatus(req[t]) /\ req[t].status \in {429, 500, 503}) =>
                  pc[t] = "fallback_post"
            /\ (FirstCallBadStatus(req[t]) /\ req[t].status \notin {429, 500, 503}) =>
                  /\ pc[t] = "done"
                  /\ req[t].outcome = "OpenAIAPIError")
    /\ [][\A t \in Tasks :
            (req[t].kind = "analyze" /\ req'[t].netcalls = 2 /\ req[t].netcalls = 1) =>
                /\ req[t].neterr = "HTTPStatusError"
                /\ req[t].status \in {429, 500, 503}
                /\ req[t].model = settings.fallback_model
                /\ req[t].model # settings.model]_vars

\* C13 witness: an analyze_text request returned the answer of its second
\* call, made with the fallback model, while another request had ended with
\* the provider error after a single call that came back with status 400.
C13_Witness ==
    /\ \E t \in Ended :
          /\ req[t].kind = "analyze" /\ req[t].netcalls = 2
          /\ req[t].outcome = "success"
          /\ req[t].model = "gpt-3.5-turbo"
    /\ \E t \in Ended :
          /\ req[t].kind = "analyze" /\ req[t].netcalls = 1
          /\ req[t].status = 400 /\ req[t].outcome = "OpenAIAPIError"

\* the outcomes the layer promises its callers: a result, or one of its own
\* error kinds
TypedOutcomes ==
    {"success", "cached", "TavilyAPIError", "OpenAIAPIError",
     "CostLimitExceededError", "APITimeoutError"}

\* C14: every request ends with a typed result or one of the layer's own
\* error kinds; a failed fallback call ends analyze_text with the provider
\* error, never with an exception of the transport library.
C14_TypedOutcomes ==
    \A t \in Ended :
        /\ req[t].outcome \in TypedOutcomes
        /\ req[t].stage = "fallback" => req[t].outcome = "OpenAIAPIError"

\* the entry the last direct cache call was about, as the calls so far left it
LastEntry == cacheOp.entries[cacheOp.namespace[1]][cacheOp.key]

C16_SetNeverRaises ==
    cacheOp.op = "set" => cacheOp.raised = ""

\* C17: after clear(ns) every get(ns, k) returns absent and the entries of all
\* other namespaces are as before; after clear() every get returns absent;
\* clearing a namespace that has no entries changes nothing and does not raise.
C17_ClearFrame ==
    [][(cacheOp'.op = "clear" /\ ncalls' # ncalls) =>
          /\ cacheOp'.raised = ""
          /\ IF cacheOp'.namespace = <<>>
             THEN \A ns \in NamespaceArgs, k \in KeyArgs :
                     CacheGet(cache', ns, k) = <<>>
             ELSE /\ \A k \in KeyArgs :
                        CacheGet(cache', cacheOp'.namespace[1], k) = <<>>
                  /\ \A ns \in NamespaceArgs :
                        ns # cacheOp'.namespace[1] => cache'[ns] = cache[ns]]_vars

\* C18: the CostBreakdown get_totals returned keeps the values it had on
\* return whatever add_cost is executed afterwards, and an assignment to a
\* field of the returned object leaves the ledger's totals as they are.
C18_SnapshotCopy ==
    /\ []((held.loc # "none" /\ held.writes = 0) =>
             ObjectValue(held, costs) = held.at_return)
    /\ [][(held.loc # "none" /\ log' # log) =>
             ObjectValue(held', costs') = ObjectValue(held, costs)]_vars
    /\ [][(held.loc # "none" /\ held'.writes = held.writes + 1) =>
             costs' = costs]_vars

\* C18 witness: after get_totals returned, an add_cost changed the ledger's
\* totals and the holder assigned to a field of the object it holds.
C18_Witness ==
    /\ held.loc # "none"
    /\ held.writes > 0
    /\ held.value # held.at_return
    /\ log # <<>>
    /\ GetTotals(costs) # held.at_return

\* capacity / (rate_per_minute / 60) seconds have passed since the bucket b
\* was last refilled, that is, since the last acquisition attempt
FullRefillDue(b) == (now - b.last_refill) * b.rate_per_minute >= b.capacity

\* task t runs a pass of the acquire loop in this step
Passes(t) ==
    /\ pc[t] \in {"acquire", "sleeping"}
    /\ pc'[t] # pc[t] \/ sleep'[t] # sleep[t]

\* C19: when capacity / (rate_per_minute / 60) seconds have passed with no
\* acquisition attempt, the refill of the next attempt brings tokens to
\* capacity before the debit: an acquire with cost <= capacity returns without
\* sleeping and leaves capacity - cost, a larger one sleeps for cost - capacity.
C19_FullRefill ==
    /\ [](FullRefillDue(bucket["tavily"]) =>
             Refill(bucket["tavily"], now).tokens = bucket["tavily"].capacity)
    /\ [][\A t \in Tasks :
            (Passes(t) /\ FullRefillDue(bucket["tavily"])) =>
                IF req[t].cost <= bucket["tavily"].capacity
                THEN /\ pc'[t] = "idle"
                     /\ bucket'["tavily"].tokens = bucket["tavily"].capacity - req[t].cost
                ELSE /\ pc'[t] = "sleeping"
                     /\ bucket'["tavily"].tokens = bucket["tavily"].capacity
                     /\ sleep'[t].need = req[t].cost - bucket["tavily"].capacity]_vars

\* C19 witness: a bucket emptied at time 0 was found full again by an
\* acquire made capacity / rate seconds or more later, which emptied it again.
C19_Witness ==
    /\ bucket["tavily"].capacity > 0
    /\ now * bucket["tavily"].rate_per_minute >= bucket["tavily"].capacity
    /\ bucket["tavily"].last_refill = now
    /\ admitted["tavily"] = 2 * bucket["tavily"].capacity
    /\ bucket["tavily"].tokens = 0
    /\ minCost >= 0

\* the client of this kind was constructed with no key argument and no
\* configured key
MissingCredential(kind) ==
    /\ client[kind].state # "none"
    /\ Falsy(client[kind].given)
    /\ Falsy(ConfiguredKey(kind))

\* C20: a client constructed with no key argument and no configured key
\* raises the missing-credential error from its constructor before its HTTP
\* client, rate limiter or cache exists; no request of a client without a
\* credential ever debits the rate limiter, reads the cache or calls the
\* network.
C20_MissingCredential ==
    /\ \A kind \in ClientKinds :
          MissingCredential(kind) =>
              /\ client[kind].state = "failed"
              /\ client[kind].error = "InvalidAPIKeyError"
              /\ client[kind].created = {}
    /\ \A kind \in ClientKinds :
          (client[kind].state # "ready" \/ Falsy(client[kind].api_key)) =>
              /\ \A t \in Tasks : req[t].kind # kind
              /\ admitted[LimiterOf(kind)] = 0
              /\ \A x \in Texts : cache[NamespaceOf(kind)][x] = <<>>

\* C20 witness: the search client failed to construct for want of a key,
\* and the analysis client, constructed with the configured key, has served a
\* request that went to the network.
C20_Witness ==
    /\ MissingCredential("search")
    /\ client["search"].state = "failed"
    /\ client["analyze"].state = "ready"
    /\ client["analyze"].api_key = <<"sk-cfg">>
    /\ \E t \in Ended : req[t].kind = "analyze" /\ req[t].netcalls > 0

\* the number of lines of the input that json.loads parses
RECURSIVE ParsedCount(_)
ParsedCount(lines) ==
    IF lines = <<>> THEN 0
    ELSE (IF Strip(Head(lines)) # BlankLine /\ JsonLoads(Strip(Head(lines))) # <<>>
          THEN 1 ELSE 0) + ParsedCount(Tail(lines))

\* the number of data rows of the output file (none when it was not written)
DataRows(e) == IF e.file = <<>> THEN 0 ELSE Len(e.file[1])

\* every line of the input that parses is a JSON object
AllObjects(lines) == \A i \in DOMAIN ReadJsonl(lines) : ReadJsonl(lines)[i].type = "object"

\* C21: a record being a JSON object, export_to_csv returns having written
\* exactly one data row per line of the input that parsed, in every column
\* mode, whatever fields the records have; blank and unparseable lines give no
\* row, and an input with no records gives no data rows.
C21_RowPerRecord ==
    (export.called /\ AllObjects(export.lines)) =>
        /\ export.raised = ""
        /\ DataRows(export) = ParsedCount(export.lines)

\* caller a is suspended in the timed wait of acquire, and caller b, on the
\* same limiter, has called acquire with a cost that the tokens available now
\* cover (costs being positive)
SleeperAndCovered(a, b) ==
    /\ a # b
    /\ req[a].cost > 0 /\ req[b].cost > 0
    /\ pc[a] = "sleeping" /\ pc[b] = "acquire"
    /\ LimiterOf(req[a].kind) = LimiterOf(req[b].kind)
    /\ Sufficient(Refill(bucket[LimiterOf(req[b].kind)], now), req[b].cost)

\* C22: while caller A sleeps in acquire waiting for its shortfall, a caller B
\* whose cost the available tokens cover can enter the critical section (and
\* so debit and return) without waiting for A's sleep to end.
C22_SleeperDoesNotBlock ==
    \A a, b \in Tasks : SleeperAndCovered(a, b) => ENABLED AcquireEnter(b)

\* task t goes from the within_budget check to add_cost in this step
PassesCheck(t) == pc[t] = "within_budget" /\ pc'[t] = "add_cost"

\* task t completes its add_cost in this step
Commits(t) == pc[t] = "add_cost" /\ pc'[t] # "add_cost"

\* C23: the budget check and the commit are two steps: a request passes the
\* check only when total + estimate <= daily budget at that moment, and its
\* add_cost then adds the estimate whatever the ledger has become; so two
\* concurrent analysis requests with estimate e, total + e <= daily budget <
\* total + 2e, can both pass before either commits and leave the total above
\* the daily budget, which requests issued one at a time never do.
C23_CheckThenCommitRace ==
    /\ [][\A t \in Tasks :
            PassesCheck(t) => Total(costs) + req[t].est <= settings.daily_budget]_vars
    /\ [][\A t \in Tasks :
            Commits(t) => Total(costs') = Total(costs) + req[t].est]_vars
    /\ [](Total(costs) > settings.daily_budget => concurrency > 1)

\* C23 witness: from an empty ledger two analysis requests, each estimated at
\* e with e <= daily budget < 2e, have both committed: each check saw the
\* total 0 (a check that saw e would have failed), and the total is 2e.
C23_Witness ==
    /\ \A t \in Tasks :
          /\ pc[t] = "done" /\ req[t].kind = "analyze"
          /\ req[t].outcome = "success"
          /\ req[t].est = req[1].est
    /\ req[1].est <= settings.daily_budget
    /\ settings.daily_budget < 2 * req[1].est
    /\ log = <<(<<"openai", req[1].est>>), (<<"openai", req[1].est>>)>>
    /\ Total(costs) = 2 * req[1].est
    /\ Total(costs) > settings.daily_budget

\* C24: with at most N analysis requests in flight at once (N = concurrency),
\* estimates between 0 and the per-request maximum and a ledger that starts
\* within budget, the ledger total never exceeds
\* daily budget + (N - 1) * per-request maximum.
C24_OvershootBound ==
    Total(costs) <= settings.daily_budget
                      + (concurrency - 1) * settings.per_request_max

\* C24 witness: with two requests in flight at once the total has reached
\* daily budget + per-request maximum exactly.
C24_Witness ==
    /\ concurrency = 2
    /\ settings.per_request_max > 0
    /\ Total(costs) = settings.daily_budget + settings.per_request_max
    /\ \E i \in DOMAIN log : log[i][2] = settings.per_request_max

\* task t completes its cache.set in this step
Stores(t) == pc[t] = "cache_set" /\ pc'[t] # "cache_set"

\* v is one whole payload of a request of this namespace: its parts belong
\* together (the cost is the one of its model and usage)
WholePayload(ns, v) ==
    IF ns = "openai_analyze"
    THEN v.total_cost_usd = EstimateCostUsd(v.model, v.usage)
    ELSE v.documents \in DocsArgs

\* C25: two concurrent requests with the same fingerprint and no cache entry
\* can both miss, both call the network and both write the entry; each set
\* leaves the entry equal to the payload of the request that executed it and
\* touches no other entry, nothing but a set changes the cache, so after both
\* the entry is the payload of the set that executed last, never a mixture.
C25_LastWriteWins ==
    /\ [][\A t \in Tasks :
            Stores(t) =>
                /\ cache'[NamespaceOf(req[t].kind)][req[t].text] = <<Payload(req[t])>>
                /\ \A ns \in Namespaces, x \in Texts :
                      (ns # NamespaceOf(req[t].kind) \/ x # req[t].text) =>
                          cache'[ns][x] = cache[ns][x]]_vars
    /\ [][cache' # cache => \E t \in Tasks : Stores(t)]_vars
    /\ [](\A ns \in Namespaces, x \in Texts :
             cache[ns][x] # <<>> => WholePayload(ns, cache[ns][x][1]))

\* C25 witness: two analysis requests for the same text both missed the
\* cache, both called the network, got different answers and both wrote the
\* entry; the entry is the payload of one of them.
C25_Witness ==
    /\ \A t \in Tasks :
          /\ pc[t] = "done" /\ req[t].kind = "analyze" /\ req[t].text = req[1].text
          /\ req[t].netcalls > 0
          /\ "cache_set" \in req[t].effects
    /\ Payload(req[1]) # Payload(req[2])
    /\ cache["openai_analyze"][req[1].text] = <<Payload(req[2])>>

\* task t is at `async with` of a lock that another task or itself owns
WaitsForLock(t) ==
    /\ lk.at[t].phase = "wait"
    /\ OpAt(t).lock # <<>>
    /\ lk.owner[OpAt(t).lock[1]] # NoTask

\* C26: no request holds more than one of the component locks at a time, no
\* request waits for a lock it holds, and the holder of a lock somebody waits
\* for can always take its next step: no interleaving of requests of both
\* clients ends with requests waiting on each other's locks.
C26_OneLockAtATime ==
    \A t \in Tasks :
        /\ Cardinality(HeldBy(t)) <= 1
        /\ lk.at[t].phase \in {"body", "sleep"} <=> HeldBy(t) # {}
        /\ WaitsForLock(t) =>
              /\ lk.owner[OpAt(t).lock[1]] # t
              /\ HeldBy(t) = {}
              /\ ENABLED LockStep(lk.owner[OpAt(t).lock[1]])

\* C26 witness: a search request waits for the ledger lock while an analysis
\* request is inside the ledger's section.
C26_Witness ==
    \E t, u \in Tasks :
        /\ lk.at[t].kind = "search" /\ lk.at[u].kind = "analyze"
        /\ WaitsForLock(t) /\ OpAt(t).lock = <<"ledger">>
        /\ lk.owner["ledger"] = u
        /\ OpAt(u).name = "add_cost"

\* the tasks inside the section of the cache lock
InSection == {t \in Tasks : cc.at[t].phase \in {"body", "opened"}}

\* C27: the reads and writes of cache files happen inside one exclusive
\* section; a get that runs while other tasks set and clear the same entry
\* returns absent or one whole payload that some set was given for that
\* entry, never the text of a file being written, and never raises, also
\* when the file is removed between the existence check and the read.
C27_SerializedCache ==
    /\ [](/\ Cardinality(InSection) <= 1
          /\ \A t \in InSection : cc.lock = t)
    /\ [][cache' # cache => \E t \in InSection : cc'.at[t] # cc.at[t]]_vars
    /\ [](\A t \in Tasks :
             (cc.at[t].op = "get" /\ cc.at[t].phase = "returned") =>
                 /\ cc.at[t].raised = ""
                 /\ \/ cc.at[t].ret = <<>>
                    \/ cc.at[t].ret[1] \in
                          cc.written[cc.at[t].namespace[1]][cc.at[t].key])

\* C27 witness: a get saw the file of its entry exist, waited for the lock
\* while a clear removed the file, and then read: it returned absent.
C27_Witness ==
    \E t, u \in Tasks :
        /\ cc.at[t].op = "get" /\ cc.at[t].phase = "returned"
        /\ cc.at[t].exists
        /\ cc.at[t].ret = <<>> /\ cc.at[t].raised = ""
        /\ cache[cc.at[t].namespace[1]][cc.at[t].key] = <<>>
        /\ cc.at[u].op = "clear" /\ cc.at[u].phase = "returned"
        /\ cc.lock = NoTask

\* the capacity of the limiter the call of task t goes through
CapacityOf(t) == bucket[LimiterOf(req[t].kind)].capacity

\* task t is inside a call of acquire
InAcquire(t) == pc[t] \in {"acquire", "sleeping"}

\* C28: with time advancing, a call of acquire with cost > capacity never
\* returns, and every call with cost <= capacity eventually returns, whether
\* or not a call with cost > capacity is in progress.
C28_AcquireReturns ==
    /\ [][\A t \in Tasks :
            (InAcquire(t) /\ req[t].cost > CapacityOf(t)) => InAcquire(t)']_vars
    /\ \A t \in Tasks :
          [](InAcquire(t) /\ req[t].cost <= CapacityOf(t) => <>(~ InAcquire(t)))

\* what _refill makes of the token count of bucket b at the present time
Fresh(b) == Min(b.capacity, b.tokens + (now - b.last_refill) * b.rate_per_minute)

\* C29: a call of acquire returns only in a step that recomputes the token
\* count for the present time, finds it >= cost and debits exactly cost,
\* holding the lock throughout; a caller whose sleep is over recomputes and
\* checks again, and sleeps again for the new shortfall when the count is
\* still below its cost.
C29_FreshCountOnReturn ==
    /\ [][\A t \in Tasks :
            (InAcquire(t) /\ ~ InAcquire(t)') =>
                LET l == LimiterOf(req[t].kind)
                IN /\ Fresh(bucket[l]) >= req[t].cost
                   /\ bucket'[l].tokens = Fresh(bucket[l]) - req[t].cost
                   /\ bucket'[l].last_refill = now
                   /\ admitted'[l] = admitted[l] + req[t].cost
                   /\ bucket[l].lock \in {NoTask, t}]_vars
    /\ [][\A t \in Tasks :
            (pc[t] = "sleeping" /\ pc'[t] = "sleeping" /\ bucket' # bucket
                /\ now' = now) =>
                LET l == LimiterOf(req[t].kind)
                IN /\ Fresh(bucket[l]) < req[t].cost
                   /\ bucket'[l].tokens = Fresh(bucket[l])
                   /\ sleep'[t].need = req[t].cost - Fresh(bucket[l])]_vars
    /\ [](\A t \in Tasks :
             pc[t] = "sleeping" => bucket[LimiterOf(req[t].kind)].lock = t)

\* C29 witness: a call that had to sleep for its shortfall has returned, on
\* the count recomputed after the sleep.
C29_Witness ==
    /\ waited > 0
    /\ admitted["tavily"] > 0
    /\ bucket["tavily"].last_refill = now /\ now > 0
    /\ minCost >= 0

\* C30: in every reachable state of the cost ledger, after any sequence of
\* add_cost calls with any amounts, each per-service total is >= 0.
C30_TotalsNonNegative ==
    /\ costs.tavily_usd >= 0
    /\ costs.openai_usd >= 0

\* C31: the cache key is a function of the request parameters alone: a
\* request whose parameters equal those of a request whose result is on disk,
\* written in this run of the program or an earlier one, finds that file.
C31_KeyDeterministic ==
    fp.last.stored_same => fp.last.found # <<>>

\* C32: a cache hit returns a result produced for the same parameters: the
\* file a request finds holds the result of a request with the same query,
\* max results and domain filters (search), or the same model, temperature,
\* max-tokens and text (analysis).
C32_KeyInjective ==
    fp.last.found # <<>> => fp.last.found[1] = fp.last.params

\* C34: a limiter constructed with rate_per_minute < 1 has rate 1; with burst
\* unspecified its capacity is its (clamped) rate; it always starts with
\* tokens = capacity.
C34_ConstructedFull ==
    made.limiter # <<>> =>
        LET b == made.limiter[1]
        IN /\ made.rate_arg < 1 => b.rate_per_minute = 1
           /\ made.burst_arg = <<>> =>
                 b.capacity = b.rate_per_minute * TokenScale
           /\ b.tokens = b.capacity

\* C34 witness: a limiter was constructed, after some time had passed, with a
\* rate below 1 and no burst.
C34_Witness ==
    /\ made.limiter # <<>>
    /\ made.rate_arg < 1
    /\ made.burst_arg = <<>>
    /\ made.limiter[1].last_refill > 0
    /\ made.limiter[1].tokens = TokenScale

\* the price row the table of _estimate_cost_usd holds for a model, per 1000
\* tokens in units of 0.0005 USD; a model it does not list gets the
\* gpt-3.5-turbo row
PriceRow(model) ==
    CASE model = "gpt-4-turbo-preview" -> [input |-> 20, output |-> 60]
      [] model = "gpt-3.5-turbo" -> [input |-> 1, output |-> 3]
      [] OTHER -> [input |-> 1, output |-> 3]

\* the model that served the response of request r
ServingModel(r) ==
    IF r.netcalls = 2 THEN settings.fallback_model ELSE settings.model

\* C35: the estimate of an analysis request is prompt tokens / 1000 * input
\* price + completion tokens / 1000 * output price at the row of the model
\* that served the response (the fallback model after a fallback), a model
\* absent from the table being priced at the gpt-3.5-turbo row; it is >= 0
\* when both token counts are >= 0.
C35_EstimateByServingModel ==
    \A t \in Tasks :
        (req[t].kind = "analyze" /\ "estimate" \in req[t].effects) =>
            LET row == PriceRow(ServingModel(req[t]))
            IN /\ req[t].est = req[t].usage[1] * row.input
                                  + req[t].usage[2] * row.output
               /\ (req[t].usage[1] >= 0 /\ req[t].usage[2] >= 0) => req[t].est >= 0

\* C35 witness: a request served by a fallback model that the table does not
\* list, after the listed primary model failed, was priced at 0.020 USD, and
\* a request served by the primary model at 0.40 USD.
C35_Witness ==
    /\ settings.model = "gpt-4-turbo-preview"
    /\ settings.fallback_model = "gpt-4o"
    /\ \E t \in Tasks :
          /\ pc[t] = "done" /\ req[t].outcome = "success"
          /\ req[t].netcalls = 2 /\ req[t].usage = <<10, 10>>
          /\ req[t].est = 40
    /\ \E i \in DOMAIN log : log[i] = <<"openai", 800>>

\* the analysis request r got its response from the fallback model
ViaFallback(r) == r.kind = "analyze" /\ r.netcalls = 2 /\ r.neterr = ""

\* C36: an analyze_text call that succeeds through the fallback model has
\* stored its result under the key of its own lookup, the one built from the
\* primary model; a later request with the same key that finds the entry
\* returns it with no network call and no change of the ledger.
C36_FallbackResultCached ==
    /\ [][\A t \in Tasks :
            (ViaFallback(req[t]) /\ pc[t] # "done" /\ pc'[t] = "done"
                /\ req'[t].outcome = "success") =>
                /\ "cache_set" \in req'[t].effects
                /\ req'[t].model = settings.fallback_model
                /\ cache'["openai_analyze"][req[t].text] = <<Payload(req'[t])>>
                /\ req'[t].result = <<Payload(req'[t])>>]_vars
    /\ [][\A t \in Tasks :
            (pc[t] = "cache_get" /\ pc'[t] # "cache_get"
                /\ cache[NamespaceOf(req[t].kind)][req[t].text] # <<>>) =>
                /\ pc'[t] = "done"
                /\ req'[t].outcome = "cached"
                /\ req'[t].result = cache[NamespaceOf(req[t].kind)][req[t].text]
                /\ req'[t].netcalls = 0
                /\ costs' = costs /\ log' = log /\ cache' = cache]_vars
    /\ [](\A t \in Ended :
             req[t].outcome = "cached" =>
                 /\ req[t].netcalls = 0
                 /\ req[t].effects \cap {"estimate", "within_budget", "add_cost",
                                         "cache_set"} = {})

\* C36 witness: with a primary model other than the fallback model, a request
\* was answered from the cache with the result the fallback model had given
\* to an earlier request for the same text, the ledger holding that one
\* charge only.
C36_Witness ==
    /\ settings.model # settings.fallback_model
    /\ \E t \in Ended :
          /\ req[t].kind = "analyze" /\ req[t].outcome = "cached"
          /\ req[t].model = settings.model
          /\ req[t].result # <<>>
          /\ req[t].result[1].model = settings.fallback_model
          /\ req[t].netcalls = 0
          /\ log = <<(<<"openai", req[t].result[1].total_cost_usd>>)>>

\* C33: in with_retries the delay before the k-th retry, k >= 1, is
\* min(max_wait, min_wait * 2^(k-1)); so with min_wait <= max_wait every
\* delay lies in [min_wait, max_wait]; and no delay follows the last attempt.
C33_BackoffDelays ==
    /\ \A k \in 1 .. Len(retry.slept) :
          /\ retry.slept[k] = Min(retry.max_wait, retry.min_wait * 2 ^ (k - 1))
          /\ retry.min_wait <= retry.max_wait =>
                (retry.min_wait <= retry.slept[k] /\ retry.slept[k] <= retry.max_wait)
    /\ RetryEnded => Len(retry.slept) <= Max(0, retry.calls - 1)

====
